---- MODULE Spec2Model ----
(***************************************************************************)
(* Streaming inference orchestration of the chat backend.                  *)
(*                                                                         *)
(* One assistant turn is modelled end to end:                              *)
(*   upstream HTTP stream                                                  *)
(*     -> OpenRouterClient.chat_completion_stream   (frame decoder)        *)
(*     -> OpenRouterService.stream_chat_completion  (accumulator and tool  *)
(*                                                   loop)                 *)
(*     -> StreamingService.stream_chat_response     (client event stream)  *)
(*                                                                         *)
(* Text is a sequence of symbols.  A JSON payload travels as two halves    *)
(* (head, tail) and json.loads succeeds only on a head followed by the     *)
(* tail of the same object.  Strings of the program (content, ids, names,  *)
(* arguments) are sequences of tokens and += is sequence concatenation.    *)
(*                                                                         *)
(* StreamingService consumes the generator of OpenRouterService under the  *)
(* name stream_chat_completion_with_tools; the class defines the generator *)
(* as stream_chat_completion, and the model binds the call to it.          *)
(***************************************************************************)
EXTENDS Integers, Sequences, FiniteSets, TLC

\* Total number of lines the upstream sends in one turn (all rounds).
MaxFrames == 4

\* Total number of lines the upstream sends in a turn whose reads are split.
MaxWireFrames == 3

\* Largest number of symbols one network read delivers when reads are split.
MaxRead == 2

\* Number of chunks each of two concurrent calls is given.
MaxTurnChunks == 3

\* Number of updates of the conversation, of get_conversation calls that
\* return, and of clock ticks in a run of the conversation cache.
MaxUpdates == 2

MaxGets == 3

MaxClock == 3

\* Number of messages of the conversation that is branched, and of branches
\* made from it.
MaxMessages == 3

MaxBranches == 2

\* Largest number of words and underscores in a tool name, and number of
\* tools published and of tool calls executed by one ToolService.
MaxNameLen == 3

MaxTools == 1

MaxExecutions == 1

\* Number of connect() and cleanup() calls made on one MCP client.
MaxClientCalls == 3

VARIABLES
    pc,                     \* position of the turn's task
    splitReads,             \* environment: network reads split the text arbitrarily
    menu,                   \* environment: which family of lines the upstream sends
    user_tool_service,      \* TRUE when a user tool service was created (tools enabled)
    round,                  \* number of upstream streaming calls made so far
    wire,                   \* text sent by the upstream and not yet read
    buffer,                 \* chat_completion_stream: buffer
    accumulated_tool_calls, \* dict index -> entry, kept in insertion order
    current_messages,       \* transcript of the turn
    pendingCalls,           \* items of accumulated_tool_calls still to iterate
    tool_messages,          \* messages collected while executing one round
    inflight,               \* the tool call being awaited (a sequence of 0 or 1 entry)
    ai_response_content,    \* stream_chat_response: collected content
    content_length,         \* stream_chat_response: running length
    internalEvents,         \* events yielded by stream_chat_completion, in order
    clientEvents,           \* events yielded by stream_chat_response, in order
    sent,                   \* log: every line the upstream sent, with its round
    calls,                  \* log: every upstream call, its transcript and outcome
    invocations,            \* log: every tool invocation and its outcome
    chunks,                 \* log: every chunk the frame decoder yielded, with its round
    open_streams,           \* rounds whose upstream response is open (connection held)
    cancelled,              \* TRUE once the turn's task was cancelled (client gone)
    model_to_use,           \* stream_chat_completion: model or conversation.current_model
    openrouter_api_key,     \* profile.openrouter_api_key ("" when there is none)
    client_to_use,          \* stream_chat_completion: the client the calls are made with
    tool_service,           \* the turn's ToolService: none, created, guarded (inside try), done
    cleanups,               \* number of calls of ToolService.cleanup
    turns,                  \* concurrent turns: each call's position, events, transcript
    accumulators,           \* concurrent turns: the accumulated_tool_calls dicts
    received,               \* concurrent turns: log of the chunks each call was given
    cache,                  \* ConversationService._cache at the conversation's key
    db,                     \* the conversation's row in the repository (its version)
    lock,                   \* ConversationService._user_locks[user_id]: holder or 0
    callers,                \* conversation cache: position and locals of each caller
    returned,               \* log: what each get_conversation returned, and when
    completed,              \* version written by the last update_conversation that returned
    clock,                  \* time.time(), in ticks
    original_messages,      \* branching: the messages of the original conversation
    branches,               \* branching: log of the requests and of the messages created
    openai_tools,           \* tool naming: the tools published, with the client and tool of each
    executions,             \* tool naming: log of execute_tool_call, its resolution and result
    client_lock,            \* MCP client: holder of self._lock, or 0
    connected,              \* MCP client: self._connected
    session,                \* MCP client: self.session ("none" for None)
    tasks,                  \* MCP client: position of each task calling the client
    finished                \* MCP client: log of the calls that returned or raised

turnVars == <<pc, splitReads, menu, user_tool_service, round, wire, buffer,
          accumulated_tool_calls, current_messages, pendingCalls, tool_messages,
          inflight, ai_response_content, content_length, internalEvents,
          clientEvents, sent, calls, invocations, chunks, open_streams,
          cancelled, model_to_use, openrouter_api_key, client_to_use,
          tool_service, cleanups>>

\* two calls of stream_chat_completion running in one event loop
concurrentVars == <<turns, accumulators, received>>

\* one ConversationService used by concurrent callers
cacheVars == <<cache, db, lock, callers, returned, completed, clock>>

\* branches made from one conversation
branchVars == <<original_messages, branches>>

\* one ToolService publishing and resolving tool names
namingVars == <<openai_tools, executions>>

\* one BaseMCPClient used by several tasks
clientVars == <<client_lock, connected, session, tasks, finished>>

\* the variables of the components modelled apart from the single turn
aside == <<concurrentVars, cacheVars, branchVars, namingVars, clientVars>>

\* the frame of each component: the turn and the other components
besideConcurrent == <<turnVars, cacheVars, branchVars, namingVars, clientVars>>

besideCache == <<turnVars, concurrentVars, branchVars, namingVars, clientVars>>

besideBranch == <<turnVars, concurrentVars, cacheVars, namingVars, clientVars>>

besideNaming == <<turnVars, concurrentVars, cacheVars, branchVars, clientVars>>

besideClient == <<turnVars, concurrentVars, cacheVars, branchVars, namingVars>>

vars == <<turnVars, aside>>

\* what the preamble of stream_chat_completion decides once for the turn
access == <<model_to_use, openrouter_api_key, client_to_use>>

----------------------------------------------------------------------------
(* Upstream wire format: JSON chunks                                       *)

ToolCallDelta(index, id, name, arguments) ==
    [index |-> index, id |-> id,
     function |-> [name |-> name, arguments |-> arguments]]

Delta(content, reasoning, tool_calls) ==
    [null |-> FALSE, content |-> content, reasoning |-> reasoning,
     tool_calls |-> tool_calls]

\* "delta": null
NullDelta == [null |-> TRUE, content |-> <<>>, reasoning |-> <<>>, tool_calls |-> <<>>]

Chunk(delta, finish_reason) ==
    [choices |-> << [delta |-> delta, finish_reason |-> finish_reason] >>]

\* a chunk without choices (usage or keep-alive payload)
NoChoices == [choices |-> <<>>]

\* Tokens of a streamed arguments string; only "{" followed by "}" is JSON.
OpenBrace == "{"
CloseBrace == "}"

\* json.loads(tool_args_str): the parsed value, or a JSONDecodeError
ParseArguments(s) ==
    IF s = <<OpenBrace, CloseBrace>>
    THEN [ok |-> TRUE, value |-> "{}"]
    ELSE [ok |-> FALSE, value |-> "JSONDecodeError"]

----------------------------------------------------------------------------
(* Upstream wire format: text                                              *)

NL       == [c |-> "nl"]
DataPfx  == [c |-> "data: "]
EventPfx == [c |-> "event: "]
Comment  == [c |-> ": comment"]
DoneTok  == [c |-> "[DONE]"]
HeadHalf(obj) == [c |-> "head", obj |-> obj]
TailHalf(obj) == [c |-> "tail", obj |-> obj]

\* A line the upstream sends: kind and, for payload lines, the JSON object.
FrameLine(obj)     == [kind |-> "frame", obj |-> obj]
TruncatedLine(obj) == [kind |-> "truncated", obj |-> obj]
EventLine          == [kind |-> "event", obj |-> NoChoices]
CommentLine        == [kind |-> "comment", obj |-> NoChoices]
SentinelLine       == [kind |-> "sentinel", obj |-> NoChoices]

\* The text of a line as it appears on the wire: data: <json>\n\n
Text(line) ==
    CASE line.kind = "frame"     -> <<DataPfx, HeadHalf(line.obj), TailHalf(line.obj), NL, NL>>
      [] line.kind = "truncated" -> <<DataPfx, HeadHalf(line.obj), NL, NL>>
      [] line.kind = "event"     -> <<EventPfx, NL>>
      [] line.kind = "comment"   -> <<Comment, NL>>
      [] line.kind = "sentinel"  -> <<DataPfx, DoneTok, NL, NL>>

----------------------------------------------------------------------------
(* OpenRouterClient.chat_completion_stream: the frame decoder              *)

\* '\n' in buffer
HasNewline(buf) == \E i \in 1..Len(buf) : buf[i].c = "nl"

FirstNewline(buf) ==
    CHOOSE i \in 1..Len(buf) :
        /\ buf[i].c = "nl"
        /\ \A j \in 1..(i - 1) : buf[j].c # "nl"

\* line, buffer = buffer.split('\n', 1)
SplitLine(buf) ==
    LET i == FirstNewline(buf)
    IN  [line |-> SubSeq(buf, 1, i - 1), rest |-> SubSeq(buf, i + 1, Len(buf))]

\* json.loads(data): the parsed object, or a JSONDecodeError
JsonLoads(data) ==
    IF /\ Len(data) = 2
       /\ data[1].c = "head"
       /\ data[2].c = "tail"
       /\ data[1].obj = data[2].obj
    THEN [ok |-> TRUE, obj |-> data[1].obj]
    ELSE [ok |-> FALSE, obj |-> NoChoices]

\* the decoder without the test for [DONE]: the sentinel is one more line
\* that json.loads rejects, and the loop goes on
DecodeLineWithoutSentinel(line) ==
    IF line # <<>> /\ line[1].c = "data: " /\ JsonLoads(Tail(line)).ok
    THEN [do |-> "yield", obj |-> JsonLoads(Tail(line)).obj]
    ELSE [do |-> "skip", obj |-> NoChoices]

\* What the decoder does with one complete line:
\* "return" on the sentinel, "yield" a parsed chunk, or "skip" the line.
DecodeLine(line) ==
    IF line # <<>> /\ line[1].c = "data: "
    THEN LET data == Tail(line)
         IN  IF Len(data) = 1 /\ data[1].c = "[DONE]"
             THEN [do |-> "return", obj |-> NoChoices]
             ELSE IF JsonLoads(data).ok
                  THEN [do |-> "yield", obj |-> JsonLoads(data).obj]
                  ELSE [do |-> "skip", obj |-> NoChoices]
    ELSE [do |-> "skip", obj |-> NoChoices]

\* the decoder keeps only the text of the last read: the part of a line
\* that an earlier read delivered is lost
BufferReplace(buf, text_chunk) == text_chunk

\* buffer += text_chunk
BufferAppend(buf, text_chunk) == buf \o text_chunk

\* Upstream call outcomes: a 2xx response, an HTTP error status, or a
\* failure to connect.
HttpErrorStatuses == {"401", "402", "404", "422", "429", "500"}

ConnectOutcomes == {"200"} \cup HttpErrorStatuses \cup {"timeout", "refused"}

\* What the body of an error response says: "credits" stands for a detail
\* that mentions credits, "other" for any other text.
ErrorDetails == {"credits", "other"}

\* the mapping without its 402 branch: a payment failure is reported as a
\* generic API error
StatusMessageWithout402(status_code, error_detail) ==
    CASE status_code = "401" -> "Invalid API key"
      [] status_code = "429" -> "Rate limit exceeded"
      [] status_code = "404" -> "Model is not available"
      [] status_code = "422" -> "Invalid request"
      [] OTHER               -> "OpenRouter streaming API error"

\* except httpx.HTTPStatusError: the message of the ValueError raised for
\* an error status and the detail of its body
StatusMessage(status_code, error_detail) ==
    CASE status_code = "401" -> "Invalid API key"
      [] status_code = "402" -> IF error_detail = "credits"
                                THEN "Insufficient credits"
                                ELSE "Payment required"
      [] status_code = "429" -> "Rate limit exceeded"
      [] status_code = "404" -> "Model is not available"
      [] status_code = "422" -> "Invalid request"
      [] OTHER               -> "OpenRouter streaming API error"

\* except httpx.TimeoutException and except Exception: the message of the
\* ValueError raised when the call fails without a status
FailureMessage(outcome) ==
    IF outcome = "timeout"
    THEN "Request timed out"
    ELSE "Failed to connect to OpenRouter"

\* the stream opened without response.raise_for_status(): an error status
\* goes unnoticed and the body is read as a stream
RaiseForStatusSkipped(outcome, error_detail) ==
    IF outcome \in {"timeout", "refused"} THEN FailureMessage(outcome) ELSE ""

\* response.raise_for_status() and the except clauses around the stream:
\* "" when the call succeeded, else the message of the ValueError raised.
RaiseForStatus(outcome, error_detail) ==
    IF outcome = "200" THEN ""
    ELSE IF outcome \in HttpErrorStatuses
         THEN StatusMessage(outcome, error_detail)
         ELSE FailureMessage(outcome)

TransportMessages ==
    {RaiseForStatus(o, d) : o \in ConnectOutcomes \ {"200"}, d \in ErrorDetails}

----------------------------------------------------------------------------
(* OpenRouterService.stream_chat_completion: events and accumulator        *)

ProgressEvent(n)  == [type |-> "tool_call_progress", data |-> [accumulated_calls |-> n]]
ReasoningEvent(t) == [type |-> "reasoning", data |-> t]
ContentEvent(t)   == [type |-> "content", data |-> t]
IncompleteEvent(index, tool_call) ==
    [type |-> "tool_error",
     data |-> [error |-> "Incomplete tool call at index", index |-> index,
               tool_call |-> tool_call]]
InvalidJsonEvent(arguments) ==
    [type |-> "tool_error",
     data |-> [error |-> "Invalid tool arguments JSON", arguments |-> arguments]]
ToolCallEvent(name, arguments) ==
    [type |-> "tool_call",
     data |-> [name |-> name, arguments |-> arguments, status |-> "executing"]]
\* a tool_result event that does not name its call
ToolResultEventUnnamed(name, result) ==
    [type |-> "tool_result",
     data |-> [name |-> <<>>, result |-> result, status |-> "completed"]]

ToolResultEvent(name, result) ==
    [type |-> "tool_result",
     data |-> [name |-> name, result |-> result, status |-> "completed"]]

ToolErrorEvent(error, tool_name) ==
    [type |-> "tool_error", data |-> [error |-> error, tool_name |-> tool_name]]

\* the entry a new index starts with
EmptyToolCall ==
    [id |-> <<>>, type |-> "function", function |-> [name |-> <<>>, arguments |-> <<>>]]

\* index in accumulated_tool_calls
HasKey(acc, index) == \E i \in 1..Len(acc) : acc[i].key = index

KeyPos(acc, index) == CHOOSE i \in 1..Len(acc) : acc[i].key = index

\* accumulated_tool_calls[index]
Lookup(acc, index) == acc[KeyPos(acc, index)].value

\* AccumulateDelta with = in place of +=: a fragment replaces what was
\* accumulated.
AccumulateDeltaOverwriting(acc, d) ==
    LET acc1 == IF HasKey(acc, d.index)
                THEN acc
                ELSE Append(acc, [key |-> d.index, value |-> EmptyToolCall])
        i    == KeyPos(acc1, d.index)
        e    == acc1[i].value
        e2   == [id |-> IF d.id # <<>> THEN d.id ELSE e.id,
                 type |-> e.type,
                 function |->
                    [name |-> IF d.function.name # <<>>
                              THEN d.function.name ELSE e.function.name,
                     arguments |-> IF d.function.arguments # <<>>
                                   THEN d.function.arguments
                                   ELSE e.function.arguments]]
    IN  [acc1 EXCEPT ![i] = [key |-> d.index, value |-> e2]]

\* One tool_call_delta: create the entry of a new index at the end of the
\* dict, then append the id, name and arguments fragments to the entry.
AccumulateDelta(acc, d) ==
    LET acc1 == IF HasKey(acc, d.index)
                THEN acc
                ELSE Append(acc, [key |-> d.index, value |-> EmptyToolCall])
        i    == KeyPos(acc1, d.index)
        e    == acc1[i].value
        e2   == [id |-> e.id \o d.id,
                 type |-> e.type,
                 function |-> [name |-> e.function.name \o d.function.name,
                               arguments |-> e.function.arguments
                                             \o d.function.arguments]]
    IN  [acc1 EXCEPT ![i] = [key |-> d.index, value |-> e2]]

\* for tool_call_delta in delta["tool_calls"]
RECURSIVE AccumulateAll(_, _)
AccumulateAll(acc, tool_calls) ==
    IF tool_calls = <<>>
    THEN acc
    ELSE AccumulateAll(AccumulateDelta(acc, Head(tool_calls)), Tail(tool_calls))

\* The body of the async for over the decoded chunks, up to the finish
\* test: the new accumulator, the events yielded, whether the chunk carries
\* a finish_reason, and whether the body raised.
HandleChunk(acc, chunk) ==
    IF Len(chunk.choices) = 0
    THEN [acc |-> acc, events |-> <<>>, finish |-> FALSE, raised |-> FALSE]
    ELSE LET choice == chunk.choices[1]
             delta  == choice.delta
         IN  IF delta.null
             THEN [acc |-> acc, events |-> <<>>, finish |-> FALSE, raised |-> TRUE]
             ELSE IF delta.tool_calls # <<>>
             THEN LET acc2 == AccumulateAll(acc, delta.tool_calls)
                  IN  [acc |-> acc2, events |-> <<ProgressEvent(Len(acc2))>>,
                       finish |-> choice.finish_reason # "", raised |-> FALSE]
             ELSE IF delta.reasoning # <<>>
             THEN [acc |-> acc, events |-> <<ReasoningEvent(delta.reasoning)>>,
                   finish |-> choice.finish_reason # "", raised |-> FALSE]
             ELSE IF delta.content # <<>>
             THEN [acc |-> acc, events |-> <<ContentEvent(delta.content)>>,
                   finish |-> choice.finish_reason # "", raised |-> FALSE]
             ELSE [acc |-> acc, events |-> <<>>,
                   finish |-> choice.finish_reason # "", raised |-> FALSE]

\* message of the TypeError raised on a chunk whose delta is null
NullDeltaError == "argument of type 'NoneType' is not iterable"

----------------------------------------------------------------------------
(* ToolService.execute_tool_call                                           *)

\* What the MCP client does with a call: a text result, an empty result,
\* or an exception.
ToolOutcomes == {"text", "empty", "raises"}

\* execute_tool_call without its except clause: an exception of the MCP
\* client reaches the caller.
ExecuteToolCallRaising(tool_name, outcome) ==
    CASE outcome = "text"   -> [raised |-> FALSE, result |-> <<"result of", tool_name>>]
      [] outcome = "empty"  -> [raised |-> FALSE, result |-> <<>>]
      [] outcome = "raises" -> [raised |-> TRUE, result |-> <<"mcp error">>]

\* The string execute_tool_call returns, and whether it raised instead:
\* every exception is caught and turned into an error string.
ExecuteToolCall(tool_name, outcome) ==
    CASE outcome = "text"   -> [raised |-> FALSE, result |-> <<"result of", tool_name>>]
      [] outcome = "empty"  -> [raised |-> FALSE, result |-> <<>>]
      [] outcome = "raises" -> [raised |-> FALSE,
                                result |-> <<"Tool execution failed: ", "mcp error">>]

----------------------------------------------------------------------------
(* StreamingService.stream_chat_response: the client event stream          *)

\* _format_sse_event(event_type, data)
FormatSseEvent(type, data) == [type |-> type, data |-> data]

\* The emitter with a tool_result sent ahead of the event before it.
EmitterStepReordering(st, ev) ==
    CASE ev.type = "content" ->
            [content |-> st.content \o ev.data,
             length  |-> st.length + Len(ev.data),
             out     |-> Append(st.out,
                            FormatSseEvent("content_chunk",
                                [chunk |-> ev.data,
                                 content_length |-> st.length + Len(ev.data)]))]
      [] ev.type = "tool_call" ->
            [st EXCEPT !.out = Append(@, FormatSseEvent("tool_call", ev.data))]
      [] ev.type = "tool_result" ->
            [st EXCEPT !.out = SubSeq(@, 1, Len(@) - 1)
                                 \o <<FormatSseEvent("tool_result", ev.data), @[Len(@)]>>]
      [] OTHER -> st

\* The emitter with each content chunk collected ahead of the content so far.
EmitterStepPrepending(st, ev) ==
    CASE ev.type = "content" ->
            [content |-> ev.data \o st.content,
             length  |-> st.length + Len(ev.data),
             out     |-> Append(st.out,
                            FormatSseEvent("content_chunk",
                                [chunk |-> ev.data,
                                 content_length |-> st.length + Len(ev.data)]))]
      [] ev.type = "tool_call" ->
            [st EXCEPT !.out = Append(@, FormatSseEvent("tool_call", ev.data))]
      [] ev.type = "tool_result" ->
            [st EXCEPT !.out = Append(@, FormatSseEvent("tool_result", ev.data))]
      [] OTHER -> st

\* The body of the async for over the engine's chunks: st holds
\* ai_response_content, content_length and the events yielded so far.
EmitterStep(st, ev) ==
    CASE ev.type = "content" ->
            [content |-> st.content \o ev.data,
             length  |-> st.length + Len(ev.data),
             out     |-> Append(st.out,
                            FormatSseEvent("content_chunk",
                                [chunk |-> ev.data,
                                 content_length |-> st.length + Len(ev.data)]))]
      [] ev.type = "tool_call" ->
            [st EXCEPT !.out = Append(@, FormatSseEvent("tool_call", ev.data))]
      [] ev.type = "tool_result" ->
            [st EXCEPT !.out = Append(@, FormatSseEvent("tool_result", ev.data))]
      [] OTHER -> st

RECURSIVE EmitAll(_, _)
EmitAll(st, evs) ==
    IF evs = <<>> THEN st ELSE EmitAll(EmitterStep(st, Head(evs)), Tail(evs))

\* the event of the except clause around the whole turn
StreamingFailed(message) ==
    FormatSseEvent("error", [message |-> "Streaming failed", cause |-> message])

----------------------------------------------------------------------------
(* The upstream: what it may send                                          *)

\* Lines of a turn that exercises the tool loop.  Index 0 arrives in two
\* fragments, index 1 either whole or with a name and no arguments.
ToolMenu(n) ==
    { FrameLine(Chunk(Delta(<<n>>, <<>>, <<>>), "")),
      FrameLine(Chunk(Delta(<<>>, <<>>,
                  <<ToolCallDelta(0, <<"call_a">>, <<"supabase_f">>, <<OpenBrace>>)>>), "")),
      FrameLine(Chunk(Delta(<<>>, <<>>,
                  <<ToolCallDelta(0, <<>>, <<>>, <<CloseBrace>>)>>), "")),
      FrameLine(Chunk(Delta(<<>>, <<>>,
                  <<ToolCallDelta(1, <<"call_b">>, <<"tavily_g">>,
                                  <<OpenBrace, CloseBrace>>)>>), "")),
      FrameLine(Chunk(Delta(<<>>, <<>>,
                  <<ToolCallDelta(1, <<"call_c">>, <<"tavily_h">>, <<>>)>>), "")),
      FrameLine(Chunk(Delta(<<>>, <<>>, <<>>), "stop")) }

\* Lines of a turn that exercises the decoder and the delta handling.
WireMenu(n) ==
    { FrameLine(Chunk(Delta(<<n>>, <<>>, <<>>), "")),
      FrameLine(Chunk(Delta(<<>>, <<"thought">>, <<>>), "")),
      FrameLine(Chunk(Delta(<<n>>, <<"thought">>, <<>>), "")),
      FrameLine(Chunk(NullDelta, "")),
      FrameLine(NoChoices),
      TruncatedLine(Chunk(Delta(<<n>>, <<>>, <<>>), "")),
      EventLine,
      CommentLine,
      SentinelLine,
      FrameLine(Chunk(Delta(<<n>>, <<>>,
                  <<ToolCallDelta(0, <<"call_a">>, <<"supabase_f">>,
                                  <<OpenBrace, CloseBrace>>)>>), "tool_calls")),
      FrameLine(Chunk(Delta(<<>>, <<>>, <<>>), "stop")) }

Menu(n) == IF menu = "tools" THEN ToolMenu(n) ELSE WireMenu(n)

FrameBudget == IF menu = "tools" THEN MaxFrames ELSE MaxWireFrames

Min(a, b) == IF a < b THEN a ELSE b

\* the round-1 transcript: the conversation context formatted for the upstream
openrouter_messages == << [role |-> "user", content |-> "question"] >>

----------------------------------------------------------------------------
(* Two concurrent calls of stream_chat_completion                          *)

\* the calls running in the event loop, tools enabled in both
Turns == {1, 2}

\* Chunks a call may be given: content, the first fragment of a tool call
\* of index 0, the fragment that completes its arguments, and a finish chunk.
TurnMenu ==
    { Chunk(Delta(<<"text">>, <<>>, <<>>), ""),
      Chunk(Delta(<<>>, <<>>,
            <<ToolCallDelta(0, <<"call_a">>, <<"supabase_f">>, <<OpenBrace>>)>>), ""),
      Chunk(Delta(<<>>, <<>>,
            <<ToolCallDelta(0, <<>>, <<>>, <<CloseBrace>>)>>), ""),
      Chunk(Delta(<<>>, <<>>, <<>>), "stop") }

\* one accumulator kept on the service object and used by every call
AccumulatorOfService(t) == 1

\* accumulated_tool_calls = {}: a local of the call, one dict per call
AccumulatorOf(t) == t

\* the for loop over the accumulated entries, every tool returning text
RECURSIVE ToolLoop(_)
ToolLoop(pending) ==
    IF pending = <<>>
    THEN [events |-> <<>>, messages |-> <<>>]
    ELSE LET tool_call == Head(pending).value
             tool_name == tool_call.function.name
             tool_args_str == tool_call.function.arguments
             rest == ToolLoop(Tail(pending))
         IN  IF tool_name = <<>> \/ tool_args_str = <<>>
             THEN [events   |-> <<IncompleteEvent(Head(pending).key, tool_call)>> \o rest.events,
                   messages |-> rest.messages]
             ELSE IF ~ParseArguments(tool_args_str).ok
             THEN [events   |-> <<InvalidJsonEvent(tool_args_str)>> \o rest.events,
                   messages |-> rest.messages]
             ELSE LET tool_result == ExecuteToolCall(tool_name, "text").result
                  IN  [events   |-> <<ToolCallEvent(tool_name, ParseArguments(tool_args_str).value),
                                      ToolResultEvent(tool_name, tool_result)>> \o rest.events,
                       messages |-> << [role |-> "assistant", tool_calls |-> <<tool_call>>],
                                       [role |-> "tool", tool_call_id |-> tool_call.id,
                                        content |-> tool_result] >> \o rest.messages]

\* a call before its first chunk
NewTurn == [pc |-> "streaming", events |-> <<>>, current_messages |-> openrouter_messages]

ConcurrentIdle ==
    /\ turns = [t \in Turns |-> NewTurn]
    /\ accumulators = [t \in Turns |-> <<>>]
    /\ received = [t \in Turns |-> <<>>]

\* Call t is given a chunk: the delta handling, and the finish test.
TurnReceives(t, chunk) ==
    /\ turns[t].pc = "streaming"
    /\ Len(received[t]) < MaxTurnChunks
    /\ received' = [received EXCEPT ![t] = Append(@, chunk)]
    /\ LET h == HandleChunk(accumulators[AccumulatorOf(t)], chunk)
       IN  /\ accumulators' = [accumulators EXCEPT ![AccumulatorOf(t)] = h.acc]
           /\ turns' = [turns EXCEPT
                  ![t].events = @ \o h.events,
                  ![t].pc = IF ~h.finish THEN "streaming"
                            ELSE IF h.acc # <<>> THEN "tools" ELSE "done"]
    /\ UNCHANGED besideConcurrent

\* Call t runs its for loop, extends its transcript, clears the accumulator
\* and makes the follow-up call.
TurnRunsTools(t) ==
    /\ turns[t].pc = "tools"
    /\ LET loop == ToolLoop(accumulators[AccumulatorOf(t)])
       IN  turns' = [turns EXCEPT
                  ![t].events = @ \o loop.events,
                  ![t].current_messages = @ \o loop.messages,
                  ![t].pc = "streaming"]
    /\ accumulators' = [accumulators EXCEPT ![AccumulatorOf(t)] = <<>>]
    /\ UNCHANGED <<received, besideConcurrent>>

NextConcurrent ==
    \/ \E t \in Turns, chunk \in TurnMenu : TurnReceives(t, chunk)
    \/ \E t \in Turns : TurnRunsTools(t)

----------------------------------------------------------------------------
(* ConversationService: the cache of one conversation, concurrent callers  *)

\* the coroutines that call the one service instance
Callers == {1, 2}

\* self._cache_ttl, in ticks of the clock
CacheTtl == 2

\* no entry at the key
NoEntry == [present |-> FALSE, data |-> 0, timestamp |-> 0]

\* self._cache[cache_key] = (response, time.time())
CacheEntry(data, timestamp) == [present |-> TRUE, data |-> data, timestamp |-> timestamp]

\* _is_cache_valid(timestamp)
IsCacheValid(timestamp) == clock - timestamp < CacheTtl

\* a caller outside any call
CallerIdle == [pc |-> "idle", row |-> 0]

CacheIdle ==
    /\ cache = NoEntry
    /\ db = 0
    /\ lock = 0
    /\ callers = [p \in Callers |-> CallerIdle]
    /\ returned = <<>>
    /\ completed = 0
    /\ clock = 0

\* get_conversation returns data to its caller, from the cache (hit) or from
\* the repository
GetReturns(data, hit) ==
    returned' = Append(returned, [data |-> data, hit |-> hit, completed |-> completed])

\* get_conversation up to its first await: a valid entry is returned at
\* once, otherwise the row is asked from the repository.
GetStart(p) ==
    /\ callers[p].pc = "idle"
    /\ Len(returned) + Cardinality({q \in Callers : callers[q].pc \in {"get_db", "get_reply"}})
          < MaxGets
    /\ IF cache.present /\ IsCacheValid(cache.timestamp)
       THEN GetReturns(cache.data, TRUE) /\ UNCHANGED callers
       ELSE callers' = [callers EXCEPT ![p].pc = "get_db"] /\ UNCHANGED returned
    /\ UNCHANGED <<cache, db, lock, completed, clock, besideCache>>

\* conversation_repo.get_by_id: the repository reads the row
GetFetch(p) ==
    /\ callers[p].pc = "get_db"
    /\ callers' = [callers EXCEPT ![p] = [pc |-> "get_reply", row |-> db]]
    /\ UNCHANGED <<cache, db, lock, returned, completed, clock, besideCache>>

\* get_conversation resumes with the row: it caches and returns it
GetResume(p) ==
    /\ callers[p].pc = "get_reply"
    /\ cache' = CacheEntry(callers[p].row, clock)
    /\ GetReturns(callers[p].row, FALSE)
    /\ callers' = [callers EXCEPT ![p] = CallerIdle]
    /\ UNCHANGED <<db, lock, completed, clock, besideCache>>

\* update_conversation: async with self._user_locks[user_id], and the
\* update is sent to the repository
UpdateStart(p) ==
    /\ callers[p].pc = "idle"
    /\ lock = 0
    /\ db + Cardinality({q \in Callers : callers[q].pc = "update_db"}) < MaxUpdates
    /\ lock' = p
    /\ callers' = [callers EXCEPT ![p].pc = "update_db"]
    /\ UNCHANGED <<cache, db, returned, completed, clock, besideCache>>

\* conversation_repo.update: the repository writes the row
UpdateWrite(p) ==
    /\ callers[p].pc = "update_db"
    /\ db' = db + 1
    /\ callers' = [callers EXCEPT ![p] = [pc |-> "update_reply", row |-> db + 1]]
    /\ UNCHANGED <<cache, lock, returned, completed, clock, besideCache>>

\* update_conversation resumes with the updated row: it deletes the entry
\* (_invalidate_conversation_cache; _invalidate_user_cache would delete it
\* too, the key ends with the user id), caches the row, releases the lock
\* and returns
UpdateFinish(p) ==
    /\ callers[p].pc = "update_reply"
    /\ cache' = CacheEntry(callers[p].row, clock)
    /\ lock' = 0
    /\ completed' = callers[p].row
    /\ callers' = [callers EXCEPT ![p] = CallerIdle]
    /\ UNCHANGED <<db, returned, clock, besideCache>>

\* time passes
Tick ==
    /\ clock < MaxClock
    /\ clock' = clock + 1
    /\ UNCHANGED <<cache, db, lock, callers, returned, completed, besideCache>>

NextCache ==
    \/ \E p \in Callers : GetStart(p)
    \/ \E p \in Callers : GetFetch(p)
    \/ \E p \in Callers : GetResume(p)
    \/ \E p \in Callers : UpdateStart(p)
    \/ \E p \in Callers : UpdateWrite(p)
    \/ \E p \in Callers : UpdateFinish(p)
    \/ Tick

----------------------------------------------------------------------------
(* ConversationService: branches of a conversation                         *)

Roles == {"user", "assistant"}

\* the content of the i-th message of the original conversation
Contents == <<"first", "second", "third", "fourth", "fifth">>

\* all_messages: message i has id i; any order of roles (an assistant
\* response that is empty or fails is not saved, so two user messages can
\* follow one another)
Histories ==
    UNION {{[i \in 1..n |-> [id |-> i, role |-> r[i], content |-> Contents[i]]] :
                r \in [1..n -> Roles]} : n \in 0..MaxMessages}

\* ids a request can name: the messages of the conversation and one id of
\* no message of the conversation
MessageIds == 1..(MaxMessages + 1)

\* new_content of an edit request (MessageEditRequest.new_content: str)
NewContents == {"", "edited"}

\* get_message_by_id and the test of its conversation_id
MessageById(all_messages, id) ==
    IF id \in 1..Len(all_messages) THEN <<all_messages[id]>> ELSE <<>>

\* for message in all_messages: messages_to_copy.append(message);
\* if message.id == branch_from_message_id: break
RECURSIVE UpToAndIncluding(_, _)
UpToAndIncluding(all_messages, id) ==
    IF all_messages = <<>> THEN <<>>
    ELSE IF Head(all_messages).id = id THEN <<Head(all_messages)>>
    ELSE <<Head(all_messages)>> \o UpToAndIncluding(Tail(all_messages), id)

\* for message in all_messages: if message.id == edit_message_id: break;
\* messages_to_copy.append(message)
RECURSIVE Before(_, _)
Before(all_messages, id) ==
    IF all_messages = <<>> THEN <<>>
    ELSE IF Head(all_messages).id = id THEN <<>>
    ELSE <<Head(all_messages)>> \o Before(Tail(all_messages), id)

\* create_message_simple(role=original_message.role,
\* content=original_message.content): the row created in the new branch
CopyOf(message) == [role |-> message.role, content |-> message.content]

\* the for loop over messages_to_copy, one create_message_simple after the
\* other
CopyAll(messages_to_copy) ==
    [i \in 1..Len(messages_to_copy) |-> CopyOf(messages_to_copy[i])]

\* _create_branch_with_messages: the copies, then the additional message
\* if additional_message_content and additional_message_role
CreateBranchWithMessages(messages_to_copy, additional_content, additional_role) ==
    CopyAll(messages_to_copy)
        \o (IF additional_content # "" /\ additional_role # ""
            THEN <<[role |-> additional_role, content |-> additional_content]>>
            ELSE <<>>)

Raised(kind, id, new_content, error) ==
    [kind |-> kind, id |-> id, new_content |-> new_content,
     outcome |-> error, created |-> <<>>]

Created(kind, id, new_content, created) ==
    [kind |-> kind, id |-> id, new_content |-> new_content,
     outcome |-> "created", created |-> created]

\* create_conversation_branch(original, branch_from_message_id)
ConversationBranch(all_messages, id) ==
    IF MessageById(all_messages, id) = <<>>
    THEN Raised("branch", id, "", "Branch message not found")
    ELSE LET messages_to_copy == UpToAndIncluding(all_messages, id)
         IN  IF messages_to_copy = <<>>
             THEN Raised("branch", id, "", "No messages found to copy")
             ELSE IF messages_to_copy[Len(messages_to_copy)].id # id
             THEN Raised("branch", id, "", "Branch message not found in conversation history")
             ELSE Created("branch", id, "", CopyAll(messages_to_copy))

\* create_message_edit_branch(original, edit_message_id, new_content)
MessageEditBranch(all_messages, id, new_content) ==
    IF MessageById(all_messages, id) = <<>>
    THEN Raised("edit", id, new_content, "Message to edit not found")
    ELSE IF MessageById(all_messages, id)[1].role # "user"
    THEN Raised("edit", id, new_content, "Only user messages can be edited")
    ELSE Created("edit", id, new_content,
                 CreateBranchWithMessages(Before(all_messages, id), new_content, "user"))

\* create_message_retry_branch(original, retry_message_id)
MessageRetryBranch(all_messages, id) ==
    IF MessageById(all_messages, id) = <<>>
    THEN Raised("retry", id, "", "Message to retry not found")
    ELSE IF MessageById(all_messages, id)[1].role # "assistant"
    THEN Raised("retry", id, "", "Only assistant messages can be retried")
    ELSE Created("retry", id, "",
                 CreateBranchWithMessages(Before(all_messages, id), "", ""))

BranchIdle ==
    /\ original_messages = <<>>
    /\ branches = <<>>

CreateConversationBranch(id) ==
    /\ Len(branches) < MaxBranches
    /\ branches' = Append(branches, ConversationBranch(original_messages, id))
    /\ UNCHANGED <<original_messages, besideBranch>>

CreateMessageEditBranch(id, new_content) ==
    /\ Len(branches) < MaxBranches
    /\ branches' = Append(branches, MessageEditBranch(original_messages, id, new_content))
    /\ UNCHANGED <<original_messages, besideBranch>>

CreateMessageRetryBranch(id) ==
    /\ Len(branches) < MaxBranches
    /\ branches' = Append(branches, MessageRetryBranch(original_messages, id))
    /\ UNCHANGED <<original_messages, besideBranch>>

NextBranch ==
    \/ \E id \in MessageIds : CreateConversationBranch(id)
    \/ \E id \in MessageIds, new_content \in NewContents :
          CreateMessageEditBranch(id, new_content)
    \/ \E id \in MessageIds : CreateMessageRetryBranch(id)

----------------------------------------------------------------------------
(* ToolService: the names of the tools                                     *)

\* A name is a sequence of words and underscores: "sequential_thinking" is
\* <<"sequential", "_", "thinking">>.
Underscore == "_"

\* known_clients, in the order execute_tool_call tries them
known_clients ==
    << <<"supabase">>, <<"firecrawl">>, <<"tavily">>,
       <<"sequential", Underscore, "thinking">> >>

KnownClients == {known_clients[i] : i \in 1..Len(known_clients)}

\* all sequences over alphabet of length at most n
SeqsUpTo(alphabet, n) == UNION {[1..k -> alphabet] : k \in 0..n}

\* mcp_tool['name']: names of one or several words, some of them words that
\* are client names too
McpToolNames == SeqsUpTo({Underscore, "list", "tavily"}, MaxNameLen)

\* function names a model may ask for beside the published ones
OtherNames ==
    SeqsUpTo({Underscore, "supabase", "sequential", "thinking", "list"}, MaxNameLen)

\* tool_name.startswith(prefix)
StartsWith(text, prefix) ==
    Len(prefix) <= Len(text) /\ SubSeq(text, 1, Len(prefix)) = prefix

\* "_" in tool_name
HasUnderscore(text) == \E i \in 1..Len(text) : text[i] = Underscore

\* _convert_mcp_to_openai_tool: f"{client_name}_{mcp_tool['name']}"
ConvertMcpToOpenaiTool(mcp_tool_name, client_name) ==
    client_name \o <<Underscore>> \o mcp_tool_name

\* no client: what the for loop over known_clients leaves when nothing matches
NoClient == [found |-> FALSE, client_name |-> <<>>, actual_tool_name |-> <<>>]

\* the name cut at its first underscore
ResolveAtFirstUnderscore(tool_name) ==
    LET i == CHOOSE k \in 1..Len(tool_name) :
                 /\ tool_name[k] = Underscore
                 /\ \A j \in 1..(k - 1) : tool_name[j] # Underscore
        client_name == SubSeq(tool_name, 1, i - 1)
    IN  IF client_name \in KnownClients
        THEN [found |-> TRUE, client_name |-> client_name,
              actual_tool_name |-> SubSeq(tool_name, i + 1, Len(tool_name))]
        ELSE NoClient

\* for registered_client in known_clients: the first one whose name and an
\* underscore start tool_name, and the rest of the name
RECURSIVE ResolveFrom(_, _)
ResolveFrom(clients, tool_name) ==
    IF clients = <<>> THEN NoClient
    ELSE IF StartsWith(tool_name, Head(clients) \o <<Underscore>>)
    THEN [found |-> TRUE, client_name |-> Head(clients),
          actual_tool_name |-> SubSeq(tool_name, Len(Head(clients)) + 2, Len(tool_name))]
    ELSE ResolveFrom(Tail(clients), tool_name)

Resolve(tool_name) == ResolveFrom(known_clients, tool_name)

\* f"Tool execution failed: {str(e)}"
ToolExecutionFailed(error) ==
    [failed |-> TRUE, text |-> <<"Tool execution failed: ", error>>]

\* execute_tool_call(tool_name, arguments): the client and tool the name is
\* resolved to, the call made to a client (none or one) and the result
\* string.  available: _initialize_client returns a client.
ResolveAndCall(tool_name, available) ==
    IF ~HasUnderscore(tool_name)
    THEN [name |-> tool_name, resolved |-> NoClient, reached |-> <<>>,
          result |-> ToolExecutionFailed("Invalid tool name format")]
    ELSE LET r == Resolve(tool_name)
         IN  IF ~r.found
             THEN [name |-> tool_name, resolved |-> r, reached |-> <<>>,
                   result |-> ToolExecutionFailed("Unknown MCP client for tool")]
             ELSE IF ~available
             THEN [name |-> tool_name, resolved |-> r, reached |-> <<>>,
                   result |-> ToolExecutionFailed("Failed to initialize MCP client")]
             ELSE [name |-> tool_name, resolved |-> r,
                   reached |-> <<[client |-> r.client_name, tool |-> r.actual_tool_name]>>,
                   result |-> [failed |-> FALSE, text |-> <<"result">>]]

NamingIdle ==
    /\ openai_tools = <<>>
    /\ executions = <<>>

\* get_openai_format_tools publishes tool mcp_tool_name of client client_name
PublishTool(client_name, mcp_tool_name) ==
    /\ Len(openai_tools) < MaxTools
    /\ openai_tools' = Append(openai_tools,
          [client |-> client_name, tool |-> mcp_tool_name,
           name |-> ConvertMcpToOpenaiTool(mcp_tool_name, client_name)])
    /\ UNCHANGED <<executions, besideNaming>>

\* the model calls a published tool by its name
ExecutePublished(i, available) ==
    /\ i \in 1..Len(openai_tools)
    /\ Len(executions) < MaxExecutions
    /\ executions' = Append(executions, ResolveAndCall(openai_tools[i].name, available))
    /\ UNCHANGED <<openai_tools, besideNaming>>

\* the model calls a function by a name of its own
ExecuteNamed(tool_name, available) ==
    /\ Len(executions) < MaxExecutions
    /\ executions' = Append(executions, ResolveAndCall(tool_name, available))
    /\ UNCHANGED <<openai_tools, besideNaming>>

NextNaming ==
    \/ \E client_name \in KnownClients, mcp_tool_name \in McpToolNames :
          PublishTool(client_name, mcp_tool_name)
    \/ \E i \in 1..MaxTools, available \in BOOLEAN : ExecutePublished(i, available)
    \/ \E tool_name \in OtherNames, available \in BOOLEAN :
          ExecuteNamed(tool_name, available)

----------------------------------------------------------------------------
(* BaseMCPClient: connect and cleanup under the client's lock              *)

\* the tasks that call connect() and cleanup() on the one client
Tasks == {1, 2}

\* What the connection attempt of connect() does: it succeeds, it raises
\* before the session is stored (stdio_client or session.initialize()), or
\* it raises after (session.list_tools()).
ConnectOutcomesOfClient == {"ok", "connection_fails", "list_tools_fails"}

ClientIdle ==
    /\ client_lock = 0
    /\ connected = FALSE
    /\ session = "none"
    /\ tasks = [t \in Tasks |-> "idle"]
    /\ finished = <<>>

\* a call of task t returned, or raised
Finished(t, op, result) ==
    finished' = Append(finished, [task |-> t, op |-> op, result |-> result])

\* calls made so far: those finished and those under way
CallsMade == Len(finished) + Cardinality({t \in Tasks : tasks[t] # "idle"})

\* the body of cleanup() under the lock
CleanupBody ==
    /\ connected' = FALSE
    /\ session' = "none"

\* connect(): async with self._lock.  A free lock is taken at once, a held
\* one is waited for.
ConnectCalled(t) ==
    /\ tasks[t] = "idle"
    /\ CallsMade < MaxClientCalls
    /\ IF client_lock = 0
       THEN client_lock' = t /\ tasks' = [tasks EXCEPT ![t] = "connect_locked"]
       ELSE UNCHANGED client_lock /\ tasks' = [tasks EXCEPT ![t] = "connect_wait"]
    /\ UNCHANGED <<connected, session, finished, besideClient>>

\* connect() under the lock: it returns when already connected, otherwise
\* it opens the connection; an exception is caught and cleanup() is awaited
\* inside the async with of the lock.
ConnectAttempt(t, outcome) ==
    /\ tasks[t] = "connect_locked"
    /\ IF connected /\ session # "none"
       THEN /\ outcome = "ok"
            /\ client_lock' = 0
            /\ tasks' = [tasks EXCEPT ![t] = "idle"]
            /\ Finished(t, "connect", "returned")
            /\ UNCHANGED <<connected, session>>
       ELSE CASE outcome = "ok" ->
                    /\ session' = "session"
                    /\ connected' = TRUE
                    /\ client_lock' = 0
                    /\ tasks' = [tasks EXCEPT ![t] = "idle"]
                    /\ Finished(t, "connect", "returned")
              [] outcome = "connection_fails" ->
                    /\ tasks' = [tasks EXCEPT ![t] = "connect_cleanup"]
                    /\ UNCHANGED <<client_lock, connected, session, finished>>
              [] outcome = "list_tools_fails" ->
                    /\ session' = "session"
                    /\ connected' = TRUE
                    /\ tasks' = [tasks EXCEPT ![t] = "connect_cleanup"]
                    /\ UNCHANGED <<client_lock, finished>>
    /\ UNCHANGED besideClient

\* cleanup() called by a task: with a free lock it runs at once, otherwise
\* it waits for the lock
CleanupCalled(t) ==
    /\ tasks[t] = "idle"
    /\ CallsMade < MaxClientCalls
    /\ IF client_lock = 0
       THEN /\ CleanupBody
            /\ Finished(t, "cleanup", "returned")
            /\ UNCHANGED <<client_lock, tasks>>
       ELSE /\ tasks' = [tasks EXCEPT ![t] = "cleanup_wait"]
            /\ UNCHANGED <<client_lock, connected, session, finished>>
    /\ UNCHANGED besideClient

\* a task waiting for the lock
Waiting(t) == tasks[t] \in {"connect_wait", "cleanup_wait", "connect_cleanup"}

\* asyncio.Lock is free and wakes a waiter.  A waiting connect() goes on
\* under the lock; a waiting cleanup() runs and releases; the cleanup()
\* awaited by the except clause of connect() runs, and connect() re-raises.
LockAcquired(t) ==
    /\ Waiting(t)
    /\ client_lock = 0
    /\ CASE tasks[t] = "connect_wait" ->
                /\ client_lock' = t
                /\ tasks' = [tasks EXCEPT ![t] = "connect_locked"]
                /\ UNCHANGED <<connected, session, finished>>
         [] tasks[t] = "cleanup_wait" ->
                /\ CleanupBody
                /\ tasks' = [tasks EXCEPT ![t] = "idle"]
                /\ Finished(t, "cleanup", "returned")
                /\ UNCHANGED client_lock
         [] tasks[t] = "connect_cleanup" ->
                /\ CleanupBody
                /\ tasks' = [tasks EXCEPT ![t] = "idle"]
                /\ Finished(t, "connect", "raised")
                /\ UNCHANGED client_lock
    /\ UNCHANGED besideClient

NextClient ==
    \/ \E t \in Tasks : ConnectCalled(t)
    \/ \E t \in Tasks, outcome \in ConnectOutcomesOfClient : ConnectAttempt(t, outcome)
    \/ \E t \in Tasks : CleanupCalled(t)
    \/ \E t \in Tasks : LockAcquired(t)

\* the components modelled apart, at rest
AsideIdle == ConcurrentIdle /\ CacheIdle /\ BranchIdle /\ NamingIdle /\ ClientIdle

----------------------------------------------------------------------------
(* The turn                                                                *)

\* the model every user may use with the shared client
DefaultModel == "openai/gpt-4o-mini"

\* Models a turn may ask for: the default one and one that needs a key.
Models == {DefaultModel, "anthropic/claude-sonnet-4"}

\* profile.openrouter_api_key: none (no profile, or no key in it) or a key
ApiKeys == {"", "user_key"}

InitCommon ==
    /\ pc = "start"
    /\ user_tool_service \in BOOLEAN
    /\ round = 0
    /\ wire = <<>>
    /\ buffer = <<>>
    /\ accumulated_tool_calls = <<>>
    /\ current_messages = openrouter_messages
    /\ pendingCalls = <<>>
    /\ tool_messages = <<>>
    /\ inflight = <<>>
    /\ ai_response_content = <<>>
    /\ content_length = 0
    /\ internalEvents = <<>>
    /\ clientEvents = <<>>
    /\ sent = <<>>
    /\ calls = <<>>
    /\ invocations = <<>>
    /\ chunks = <<>>
    /\ open_streams = {}
    /\ cancelled = FALSE
    /\ client_to_use = "unset"
    /\ tool_service = "none"
    /\ cleanups = 0

Init ==
    /\ InitCommon
    /\ AsideIdle
    /\ menu = "tools"
    /\ splitReads = FALSE
    /\ model_to_use = DefaultModel
    /\ openrouter_api_key = ""

InitWire ==
    /\ InitCommon
    /\ AsideIdle
    /\ menu = "wire"
    /\ splitReads = TRUE
    /\ model_to_use = DefaultModel
    /\ openrouter_api_key = ""

\* yield of the engine, consumed by stream_chat_response
Yield(evs) ==
    LET st == EmitAll([content |-> ai_response_content,
                       length  |-> content_length,
                       out     |-> clientEvents], evs)
    IN  /\ internalEvents' = internalEvents \o evs
        /\ ai_response_content' = st.content
        /\ content_length' = st.length
        /\ clientEvents' = st.out

\* await user_tool_service.cleanup() of the finally clause
Cleanup ==
    /\ cleanups' = cleanups + 1
    /\ tool_service' = "done"

\* finally: runs when the generator is left from inside the try statement
\* (pc' tells whether the step leaves it); cleanup only if a service exists
Finally ==
    IF tool_service = "guarded" /\ pc' \in {"persist", "closed"}
    THEN Cleanup
    ELSE UNCHANGED <<tool_service, cleanups>>

\* An exception leaves stream_chat_completion: its finally clause runs and
\* the except clause of stream_chat_response yields the error event.
EngineRaises(message) ==
    /\ pc' = "closed"
    /\ clientEvents' = Append(clientEvents, StreamingFailed(message))
    /\ wire' = <<>>
    /\ buffer' = <<>>
    /\ UNCHANGED <<ai_response_content, content_length, internalEvents>>

\* stream_chat_completion returns: the generator is exhausted
EngineReturns ==
    /\ pc' = "persist"
    /\ wire' = <<>>
    /\ buffer' = <<>>

\* the for loop over accumulated_tool_calls.items() starts
StartToolRound(acc) ==
    /\ pc' = "tools"
    /\ pendingCalls' = acc
    /\ tool_messages' = <<>>
    /\ wire' = <<>>
    /\ buffer' = <<>>

\* What the lookups before the engine's stream find: the conversation and
\* the user message, no conversation, or no user message (the existing one
\* is missing, or creating it fails).
StartOutcomes == {"ok", "no_conversation", "no_user_message"}

\* stream_chat_response up to the call of the engine: an error event and
\* return, or the user_message and assistant_message_start events.
StartTurn(outcome) ==
    /\ pc = "start"
    /\ CASE outcome = "ok" ->
              /\ pc' = "setup"
              /\ clientEvents' = clientEvents \o
                    << FormatSseEvent("user_message", [role |-> "user"]),
                       FormatSseEvent("assistant_message_start", [role |-> "assistant"]) >>
         [] outcome = "no_conversation" ->
              /\ pc' = "closed"
              /\ clientEvents' = Append(clientEvents,
                    FormatSseEvent("error", [message |-> "Conversation not found",
                                             cause |-> "start"]))
         [] outcome = "no_user_message" ->
              /\ pc' = "closed"
              /\ clientEvents' = Append(clientEvents,
                    FormatSseEvent("error", [message |-> "Failed to save user message",
                                             cause |-> "start"]))
    /\ UNCHANGED <<aside, access, tool_service, cleanups, splitReads, menu, user_tool_service, chunks, cancelled,
                   open_streams, round, wire, buffer,
                   accumulated_tool_calls, current_messages, pendingCalls,
                   tool_messages, inflight, ai_response_content, content_length,
                   internalEvents, sent, calls, invocations>>

\* the key of the shared client (settings.openrouter_api_key)
SettingsKey == "settings_key"

\* OpenRouterClient.with_api_key(api_key): a new client, which holds api_key
\* or, for an empty one, the key of the settings
WithApiKey(api_key) == IF api_key # "" THEN api_key ELSE SettingsKey

\* the user's client for every model, the default one included
ClientForEveryModel(api_key, model) ==
    IF api_key # "" THEN WithApiKey(api_key) ELSE SettingsKey

\* client_to_use: the shared client, or one built from the user's key when
\* the profile holds a key and the model is not the default one
ClientFor(api_key, model) ==
    IF api_key # "" /\ model # DefaultModel THEN WithApiKey(api_key) ELSE SettingsKey

\* the check of the key left out: every model is served
KeyMissingNever(api_key, model) == FALSE

\* if model_to_use != "openai/gpt-4o-mini": if not profile or not
\* profile.openrouter_api_key: raise
KeyMissing(api_key, model) == model # DefaultModel /\ api_key = ""

\* What get_conversation returns to the engine: the conversation, or None.
EngineStartOutcomes == {"ok", "no_conversation"}

\* stream_chat_completion from its first line to the creation of the tool
\* service: conversation, profile, key check, client, context.
EngineStart(outcome) ==
    /\ pc = "setup"
    /\ IF outcome = "no_conversation"
       THEN /\ EngineRaises("Conversation not found")
            /\ UNCHANGED <<client_to_use, tool_service>>
       ELSE IF KeyMissing(openrouter_api_key, model_to_use)
       THEN /\ EngineRaises("Model requires a personal OpenRouter API key")
            /\ UNCHANGED <<client_to_use, tool_service>>
       ELSE /\ client_to_use' = ClientFor(openrouter_api_key, model_to_use)
            /\ IF user_tool_service
               THEN pc' = "tool_setup" /\ tool_service' = "created"
               ELSE pc' = "connect" /\ UNCHANGED tool_service
            /\ UNCHANGED <<wire, buffer, clientEvents, ai_response_content,
                           content_length, internalEvents>>
    /\ UNCHANGED <<aside, model_to_use, openrouter_api_key, cleanups, splitReads, menu,
                   user_tool_service, chunks, cancelled, open_streams, round,
                   accumulated_tool_calls, current_messages, pendingCalls,
                   tool_messages, inflight, sent, calls, invocations>>

\* await user_tool_service.get_openai_format_tools(enabled_tools) returns,
\* and the try statement is entered
ToolSetup ==
    /\ pc = "tool_setup"
    /\ pc' = "connect"
    /\ tool_service' = "guarded"
    /\ UNCHANGED <<aside, access, cleanups, splitReads, menu, user_tool_service, chunks,
                   cancelled, open_streams, round, wire, buffer,
                   accumulated_tool_calls, current_messages, pendingCalls,
                   tool_messages, inflight, ai_response_content, content_length,
                   internalEvents, clientEvents, sent, calls, invocations>>

\* client.stream(...) and response.raise_for_status()
Connect(outcome, error_detail) ==
    /\ pc = "connect"
    /\ round' = round + 1
    /\ calls' = Append(calls, [round |-> round + 1, messages |-> current_messages,
                               outcome |-> outcome, client |-> client_to_use])
    /\ IF RaiseForStatus(outcome, error_detail) = ""
       THEN /\ pc' = "streaming"
            /\ open_streams' = open_streams \cup {round + 1}
            /\ UNCHANGED <<wire, buffer, clientEvents, ai_response_content,
                           content_length, internalEvents>>
       ELSE /\ EngineRaises(RaiseForStatus(outcome, error_detail))
            /\ UNCHANGED open_streams
    /\ Finally
    /\ UNCHANGED <<aside, access, splitReads, menu, user_tool_service, chunks, cancelled,
                   accumulated_tool_calls,
                   current_messages, pendingCalls, tool_messages, inflight, sent,
                   invocations>>

\* the upstream writes one more line to the response
UpstreamSend(line) ==
    /\ pc = "streaming"
    /\ Len(sent) < FrameBudget
    /\ IF splitReads THEN Len(wire) < MaxRead
                     ELSE wire = <<>> /\ buffer = <<>>
    /\ wire' = wire \o Text(line)
    /\ sent' = Append(sent, [round |-> round, line |-> line])
    /\ UNCHANGED <<pc, aside, access, tool_service, cleanups, splitReads, menu, user_tool_service, chunks, cancelled,
                   open_streams, round, buffer,
                   accumulated_tool_calls, current_messages, pendingCalls,
                   tool_messages, inflight, ai_response_content, content_length,
                   internalEvents, clientEvents, calls, invocations>>

\* async for text_chunk in response.aiter_text(): buffer += text_chunk
NetworkRead(k) ==
    /\ pc = "streaming"
    /\ ~HasNewline(buffer)
    /\ wire # <<>>
    /\ k \in (IF splitReads THEN 1..Min(MaxRead, Len(wire)) ELSE {Len(wire)})
    /\ buffer' = BufferAppend(buffer, SubSeq(wire, 1, k))
    /\ wire' = SubSeq(wire, k + 1, Len(wire))
    /\ UNCHANGED <<pc, aside, access, tool_service, cleanups, splitReads, menu, user_tool_service, chunks, cancelled,
                   open_streams, round,
                   accumulated_tool_calls, current_messages, pendingCalls,
                   tool_messages, inflight, ai_response_content, content_length,
                   internalEvents, clientEvents, sent, calls, invocations>>

\* The upstream stream ended without a finish_reason (sentinel or end of
\* text).  In the first round the for loop ends and the generator returns;
\* in a follow-up round the while loop tests accumulated_tool_calls again.
StreamEnds ==
    IF round > 1 /\ accumulated_tool_calls # <<>>
    THEN StartToolRound(accumulated_tool_calls)
    ELSE EngineReturns /\ UNCHANGED <<pendingCalls, tool_messages>>

\* the test of the tool loop with a cap of one tool round
HasToolCallsUnderCap(acc) == acc # <<>> /\ user_tool_service /\ round < 2

\* the test of the tool loop without its last operand
HasToolCalls(acc) == acc # <<>>

\* ... and accumulated_tool_calls and user_tool_service
HasToolCallsAndService(acc) == acc # <<>> /\ user_tool_service

\* the finish test without the tool loop: the generator returns whatever
\* the accumulator holds
RoundFinishesWithoutToolLoop(acc) ==
    EngineReturns /\ UNCHANGED <<pendingCalls, tool_messages>>

\* A chunk carried a finish_reason: run the tool loop when there are
\* accumulated calls and a tool service, else return.
RoundFinishes(acc) ==
    IF HasToolCallsAndService(acc)
    THEN StartToolRound(acc)
    ELSE EngineReturns /\ UNCHANGED <<pendingCalls, tool_messages>>

\* while '\n' in buffer: one line is split off, decoded and, when it
\* carries a chunk, handled by stream_chat_completion and stream_chat_response.
DecodeStep ==
    /\ pc = "streaming"
    /\ HasNewline(buffer)
    /\ LET sp == SplitLine(buffer)
           d  == DecodeLine(sp.line)
           h  == HandleChunk(accumulated_tool_calls, d.obj)
       IN  CASE d.do = "skip" ->
                  /\ buffer' = sp.rest
                  /\ UNCHANGED <<pc, wire, accumulated_tool_calls, pendingCalls,
                                 tool_messages, ai_response_content, content_length,
                                 internalEvents, clientEvents>>
             [] d.do = "return" ->
                  /\ StreamEnds
                  /\ UNCHANGED <<accumulated_tool_calls, ai_response_content,
                                 content_length, internalEvents, clientEvents>>
             [] d.do = "yield" /\ h.raised ->
                  /\ EngineRaises(NullDeltaError)
                  /\ UNCHANGED <<accumulated_tool_calls, pendingCalls, tool_messages>>
             [] d.do = "yield" /\ ~h.raised ->
                  /\ Yield(h.events)
                  /\ accumulated_tool_calls' = h.acc
                  /\ IF h.finish
                     THEN RoundFinishes(h.acc)
                     ELSE /\ buffer' = sp.rest
                          /\ UNCHANGED <<pc, wire, pendingCalls, tool_messages>>
    /\ chunks' = IF DecodeLine(SplitLine(buffer).line).do = "yield"
                  THEN Append(chunks, [round |-> round,
                                       obj |-> DecodeLine(SplitLine(buffer).line).obj])
                  ELSE chunks
    /\ open_streams' = IF DecodeLine(SplitLine(buffer).line).do = "return"
                        THEN open_streams \ {round}
                        ELSE open_streams
    /\ Finally
    /\ UNCHANGED <<aside, access, splitReads, menu, user_tool_service, round, current_messages,
                   inflight, sent, calls, invocations, cancelled>>

\* How a stream with nothing more to read ends: the response is complete,
\* the read times out, or the connection is reset.
EndOutcomes == {"eof", "timeout", "refused"}

\* aiter_text has no more text: the loop ends, or the read raises
NetworkEnd(how) ==
    /\ pc = "streaming"
    /\ ~HasNewline(buffer)
    /\ wire = <<>>
    /\ calls' = [calls EXCEPT ![Len(calls)].outcome = IF how = "eof" THEN @ ELSE how]
    /\ IF how = "eof"
       THEN /\ StreamEnds
            /\ UNCHANGED <<ai_response_content, content_length, internalEvents,
                           clientEvents>>
       ELSE /\ EngineRaises(FailureMessage(how))
            /\ UNCHANGED <<pendingCalls, tool_messages>>
    /\ open_streams' = open_streams \ {round}
    /\ Finally
    /\ UNCHANGED <<aside, access, splitReads, menu, user_tool_service, chunks, cancelled, round,
                   accumulated_tool_calls, current_messages, inflight, sent,
                   invocations>>

\* the call is started as a task of its own and the for loop goes on
\* without waiting for it
ExecuteToolCallNotAwaited == "tools"

\* tool_result = await user_tool_service.execute_tool_call(...): the task
\* is suspended until the call returns
AwaitExecuteToolCall == "tool_await"

\* break in place of continue: a malformed entry ends the for loop and the
\* entries after it are never looked at
Break(pending) == <<>>

\* continue: the for loop goes on with the entries after the malformed one
Continue(pending) == Tail(pending)

\* One iteration of the for loop over the accumulated calls, up to the
\* await of the tool: an incomplete or unparseable entry is reported and
\* skipped, a complete one is announced and invoked.
ToolStep ==
    /\ pc = "tools"
    /\ pendingCalls # <<>>
    /\ LET index     == Head(pendingCalls).key
           tool_call == Head(pendingCalls).value
           tool_name == tool_call.function.name
           tool_args_str == tool_call.function.arguments
       IN  /\ IF tool_name = <<>> \/ tool_args_str = <<>>
              THEN /\ Yield(<<IncompleteEvent(index, tool_call)>>)
                   /\ pendingCalls' = Continue(pendingCalls)
                   /\ UNCHANGED <<pc, inflight, invocations>>
              ELSE IF ~ParseArguments(tool_args_str).ok
              THEN /\ Yield(<<InvalidJsonEvent(tool_args_str)>>)
                   /\ pendingCalls' = Continue(pendingCalls)
                   /\ UNCHANGED <<pc, inflight, invocations>>
              ELSE /\ pendingCalls' = Tail(pendingCalls)
                   /\ Yield(<<ToolCallEvent(tool_name,
                                            ParseArguments(tool_args_str).value)>>)
                   /\ pc' = AwaitExecuteToolCall
                   /\ inflight' = <<Head(pendingCalls)>>
                   /\ invocations' = Append(invocations,
                          [round |-> round, index |-> index, tool_call |-> tool_call,
                           outcome |-> "pending"])
    /\ UNCHANGED <<aside, access, tool_service, cleanups, splitReads, menu, user_tool_service, chunks, cancelled,
                   open_streams, round, wire, buffer,
                   accumulated_tool_calls, current_messages, tool_messages, sent,
                   calls>>

\* What follows the await of execute_tool_call: the result (or the error
\* string) is announced and recorded, an exception is reported, and the for
\* loop goes on.
AfterExecuteToolCall(outcome) ==
    /\ LET tool_call == inflight[1].value
           tool_name == tool_call.function.name
           r         == ExecuteToolCall(tool_name, outcome)
       IN  IF r.raised
           THEN /\ Yield(<<ToolErrorEvent(r.result, tool_name)>>)
                /\ UNCHANGED tool_messages
           ELSE /\ Yield(<<ToolResultEvent(tool_name, r.result)>>)
                /\ tool_messages' = tool_messages \o
                      << [role |-> "assistant", tool_calls |-> <<tool_call>>],
                         [role |-> "tool", tool_call_id |-> tool_call.id,
                          content |-> r.result] >>
    /\ pc' = "tools"
    /\ inflight' = <<>>
    /\ invocations' = [invocations EXCEPT ![Len(invocations)].outcome = outcome]
    /\ UNCHANGED <<aside, access, tool_service, cleanups, splitReads, menu, user_tool_service, chunks, open_streams, round,
                   wire, buffer, accumulated_tool_calls, current_messages,
                   pendingCalls, sent, calls>>

\* await user_tool_service.execute_tool_call(...) returns or raises
ToolReturn(outcome) ==
    /\ pc = "tool_await"
    /\ AfterExecuteToolCall(outcome)
    /\ UNCHANGED cancelled

\* the for loop left before its last entry
LoopLeftEarly == TRUE

\* the for loop over accumulated_tool_calls.items() has no entry left
LoopExhausted == pendingCalls = <<>>

\* the round's messages put in front of the transcript
ExtendAtFront(messages, extra) == extra \o messages

\* current_messages.extend(tool_messages)
Extend(messages, extra) == messages \o extra

\* the accumulator left as the for loop found it
StaleToolCalls == accumulated_tool_calls

\* accumulated_tool_calls = {} before the follow-up call
ClearedToolCalls == <<>>

\* After the for loop: extend the transcript, clear the accumulator and go
\* on to the follow-up upstream call.
EndToolRound ==
    /\ pc = "tools"
    /\ LoopExhausted
    /\ current_messages' = Extend(current_messages, tool_messages)
    /\ accumulated_tool_calls' = ClearedToolCalls
    /\ tool_messages' = <<>>
    /\ pc' = "connect"
    /\ UNCHANGED <<aside, access, tool_service, cleanups, splitReads, menu, user_tool_service, chunks, cancelled,
                   open_streams, round, wire, buffer,
                   pendingCalls, inflight, ai_response_content, content_length,
                   internalEvents, clientEvents, sent, calls, invocations>>

\* asyncio.CancelledError derived from Exception, as it did before
\* Python 3.8: every except Exception clause catches a cancellation
IsExceptionLegacy(exc) == exc # "GeneratorExit"

\* isinstance(exc, Exception), the test of the except Exception clauses:
\* asyncio.CancelledError and GeneratorExit derive from BaseException
IsException(exc) == exc \notin {"CancelledError", "GeneratorExit"}

\* Where the task is suspended when it is cancelled: in an await of its
\* own (a network read, a tool call, a database call), where
\* CancelledError is raised, or at a yield, waiting for the client to take
\* an event, where the generators are closed with GeneratorExit.
SuspensionPoints == {"await", "yield"}

\* The client disconnects and the turn's task is cancelled.  The exception
\* unwinds chat_completion_stream (its async with releases the response
\* being read), stream_chat_completion and stream_chat_response, unless an
\* except Exception clause on the way catches it: execute_tool_call turns
\* it into an error string, chat_completion_stream into a ValueError.
Cancel(point) ==
    /\ pc # "closed"
    /\ ~cancelled
    /\ point = "await" => pc # "tools"
    /\ point = "yield" => pc # "tool_setup" /\ ~(pc = "connect" /\ round = 0)
    /\ cancelled' = TRUE
    /\ LET exc == IF point = "await" THEN "CancelledError" ELSE "GeneratorExit"
       IN  IF pc = "tool_await" /\ point = "await" /\ IsException(exc)
           THEN AfterExecuteToolCall("raises")
           ELSE IF pc = "streaming" /\ point = "await" /\ IsException(exc)
           THEN /\ EngineRaises(FailureMessage("refused"))
                /\ open_streams' = open_streams \ {round}
                /\ Finally
                /\ UNCHANGED <<aside, access, splitReads, menu, user_tool_service, chunks, round,
                               accumulated_tool_calls, current_messages,
                               pendingCalls, tool_messages, inflight, sent, calls,
                               invocations>>
           ELSE /\ pc' = "closed"
                /\ wire' = <<>>
                /\ buffer' = <<>>
                /\ inflight' = <<>>
                /\ invocations' =
                      [n \in 1..Len(invocations) |->
                          IF invocations[n].outcome = "pending"
                          THEN [invocations[n] EXCEPT !.outcome = "cancelled"]
                          ELSE invocations[n]]
                /\ open_streams' = IF pc = "streaming" /\ point = "await"
                                    THEN open_streams \ {round}
                                    ELSE open_streams
                /\ IF point = "await" /\ tool_service = "guarded"
                   THEN Cleanup
                   ELSE UNCHANGED <<tool_service, cleanups>>
                /\ UNCHANGED <<aside, access, splitReads, menu, user_tool_service, chunks, round,
                               accumulated_tool_calls, current_messages,
                               pendingCalls, tool_messages, ai_response_content,
                               content_length, internalEvents, clientEvents, sent,
                               calls>>

\* The generator of round r is suspended at its yield and nothing refers
\* to it any more: the engine left the async for over it (break) or ended.
\* The generator of the first round is referred to as long as the engine
\* runs, since the tool loop runs inside the async for over it.
Unreferenced(r) ==
    \/ pc \in {"persist", "title", "closed"}
    \/ r > 1 /\ (r < round \/ pc \in {"tools", "tool_await", "connect"})

\* The event loop closes an unreferenced generator (aclose): its async with
\* blocks exit and the response and its connection are released.
Finalize(r) ==
    /\ r \in open_streams
    /\ Unreferenced(r)
    /\ open_streams' = open_streams \ {r}
    /\ UNCHANGED <<pc, aside, access, tool_service, cleanups, splitReads, menu, user_tool_service, chunks, cancelled, round,
                   wire, buffer, accumulated_tool_calls, current_messages,
                   pendingCalls, tool_messages, inflight, ai_response_content,
                   content_length, internalEvents, clientEvents, sent, calls,
                   invocations>>

Finalizes == \E r \in open_streams : Finalize(r)

\* The generator of stream_chat_completion was left suspended at a yield by
\* a consumer that is gone: the event loop closes it, GeneratorExit is
\* raised at the yield and the finally clause runs.
FinalizeEngine ==
    /\ cancelled
    /\ tool_service = "guarded"
    /\ Cleanup
    /\ UNCHANGED <<pc, aside, access, splitReads, menu, user_tool_service, chunks,
                   cancelled, open_streams, round, wire, buffer,
                   accumulated_tool_calls, current_messages, pendingCalls,
                   tool_messages, inflight, ai_response_content, content_length,
                   internalEvents, clientEvents, sent, calls, invocations>>

\* ai_response_content.strip(): content tokens are never whitespace
IsBlank(content) == content = <<>>

PersistOutcomes == {"saved", "fails"}

\* After the engine's generator is exhausted: the assistant message is
\* created when there is content, and the completion event is sent.
Persist(outcome) ==
    /\ pc = "persist"
    /\ IF IsBlank(ai_response_content)
       THEN /\ outcome = "saved"
            /\ pc' = "closed"
            /\ UNCHANGED clientEvents
       ELSE IF outcome = "fails"
       THEN /\ pc' = "closed"
            /\ clientEvents' = Append(clientEvents,
                  FormatSseEvent("error", [message |-> "Failed to save AI response",
                                           cause |-> "persistence"]))
       ELSE /\ pc' = "title"
            /\ clientEvents' = Append(clientEvents,
                  FormatSseEvent("assistant_message_complete",
                                 [content |-> ai_response_content,
                                  status |-> "completed"]))
    /\ UNCHANGED <<aside, access, tool_service, cleanups, splitReads, menu, user_tool_service, chunks, cancelled,
                   open_streams, round, wire, buffer,
                   accumulated_tool_calls, current_messages, pendingCalls,
                   tool_messages, inflight, ai_response_content, content_length,
                   internalEvents, sent, calls, invocations>>

\* What _check_and_generate_title_stream does: nothing (the conversation
\* has a title or more than two messages), a generated title, no title, or
\* an exception from the title generation.
TitleOutcomes == {"skip", "title", "none", "raises"}

TitleEvents(outcome) ==
    CASE outcome = "skip"   -> <<>>
      [] outcome = "title"  -> << FormatSseEvent("title_generation_started", <<>>),
                                  FormatSseEvent("title_complete", <<>>) >>
      [] outcome = "none"   -> << FormatSseEvent("title_generation_started", <<>>),
                                  FormatSseEvent("error",
                                      [message |-> "Could not generate title",
                                       cause |-> "title"]) >>
      [] outcome = "raises" -> << FormatSseEvent("title_generation_started", <<>>),
                                  FormatSseEvent("error",
                                      [message |-> "Title generation failed",
                                       cause |-> "title"]) >>

TitleGeneration(outcome) ==
    /\ pc = "title"
    /\ pc' = "closed"
    /\ clientEvents' = clientEvents \o TitleEvents(outcome)
    /\ UNCHANGED <<aside, access, tool_service, cleanups, splitReads, menu, user_tool_service, chunks, cancelled,
                   open_streams, round, wire, buffer,
                   accumulated_tool_calls, current_messages, pendingCalls,
                   tool_messages, inflight, ai_response_content, content_length,
                   internalEvents, sent, calls, invocations>>

UpstreamSends == \E line \in Menu(Len(sent) + 1) : UpstreamSend(line)

NetworkReads == \E k \in 1..Len(wire) : NetworkRead(k)

Next ==
    \/ \E outcome \in StartOutcomes : StartTurn(outcome)
    \/ \E outcome \in EngineStartOutcomes : EngineStart(outcome)
    \/ ToolSetup
    \/ \E outcome \in ConnectOutcomes, error_detail \in ErrorDetails :
           Connect(outcome, error_detail)
    \/ UpstreamSends
    \/ NetworkReads
    \/ DecodeStep
    \/ \E how \in EndOutcomes : NetworkEnd(how)
    \/ ToolStep
    \/ \E outcome \in ToolOutcomes : ToolReturn(outcome)
    \/ EndToolRound
    \/ \E outcome \in PersistOutcomes : Persist(outcome)
    \/ \E outcome \in TitleOutcomes : TitleGeneration(outcome)
    \/ \E point \in SuspensionPoints : Cancel(point)
    \/ Finalizes
    \/ FinalizeEngine

Spec == Init /\ [][Next]_vars

SpecWire == InitWire /\ [][Next]_vars

\* A turn for any model and any profile: the model asked for and the key of
\* the user's profile are inputs of stream_chat_completion.
InitAccess ==
    /\ InitCommon
    /\ AsideIdle
    /\ menu = "tools"
    /\ splitReads = FALSE
    /\ model_to_use \in Models
    /\ openrouter_api_key \in ApiKeys

SpecAccess == InitAccess /\ [][Next]_vars

\* the single turn at rest, for the specifications of the other components
TurnIdle ==
    /\ InitCommon
    /\ ~user_tool_service
    /\ menu = "tools"
    /\ splitReads = FALSE
    /\ model_to_use = DefaultModel
    /\ openrouter_api_key = ""

\* Two calls of stream_chat_completion interleaved chunk by chunk.
\* every component at rest
Idle == TurnIdle /\ AsideIdle

SpecConcurrent == Idle /\ [][NextConcurrent]_vars

SpecCache == Idle /\ [][NextCache]_vars

\* any conversation of up to MaxMessages messages, no branch made yet
InitBranch ==
    /\ TurnIdle
    /\ ConcurrentIdle
    /\ CacheIdle
    /\ NamingIdle
    /\ ClientIdle
    /\ original_messages \in Histories
    /\ branches = <<>>

SpecBranch == InitBranch /\ [][NextBranch]_vars

SpecNaming == Idle /\ [][NextNaming]_vars

\* The event loop runs every task that can run: a step that stays possible
\* is taken.
SpecClient == Idle /\ [][NextClient]_vars /\ WF_vars(NextClient)

\* The event loop runs the aclose of every generator it has to finalize.
SpecFair == Init /\ [][Next]_vars /\ WF_vars(Finalizes) /\ WF_vars(FinalizeEngine)

\* The consumer keeps taking events and every awaited tool call and upstream
\* connection ends: the for loop, the await of the tool, the statements
\* after the loop and the follow-up call are each carried out once reached.
SpecProgress ==
    /\ Init /\ [][Next]_vars
    /\ WF_vars(ToolStep)
    /\ WF_vars(\E outcome \in ToolOutcomes : ToolReturn(outcome))
    /\ WF_vars(EndToolRound)
    /\ WF_vars(\E outcome \in ConnectOutcomes, error_detail \in ErrorDetails :
                   Connect(outcome, error_detail))

----------------------------------------------------------------------------
(* Vocabulary of the properties                                            *)

\* the event that tells the client the turn completed
DoneType == "assistant_message_complete"

TypesOf(evs) == [i \in 1..Len(evs) |-> evs[i].type]

\* the events of a client stream that follow assistant_message_start: the
\* events of the assistant's turn
RECURSIVE AfterStart(_)
AfterStart(evs) ==
    IF evs = <<>> THEN <<>>
    ELSE IF Head(evs).type = "assistant_message_start" THEN Tail(evs)
         ELSE AfterStart(Tail(evs))

CountType(evs, type) == Cardinality({i \in 1..Len(evs) : evs[i].type = type})

Last(seq) == seq[Len(seq)]

RECURSIVE DropWhileIn(_, _)
DropWhileIn(seq, S) ==
    IF seq # <<>> /\ Head(seq) \in S THEN DropWhileIn(Tail(seq), S) ELSE seq

\* the lines the upstream sent in round r, in order
RECURSIVE LinesOfRound(_, _)
LinesOfRound(log, r) ==
    IF log = <<>> THEN <<>>
    ELSE IF Head(log).round = r
         THEN <<Head(log).line>> \o LinesOfRound(Tail(log), r)
         ELSE LinesOfRound(Tail(log), r)

\* the delta of a line, when the line is a well-formed frame with a delta
HasDelta(line) ==
    /\ line.kind = "frame"
    /\ Len(line.obj.choices) > 0
    /\ ~line.obj.choices[1].delta.null

DeltaOf(line) == line.obj.choices[1].delta

IsFinishLine(line) ==
    /\ line.kind = "frame"
    /\ Len(line.obj.choices) > 0
    /\ line.obj.choices[1].finish_reason # ""

\* the tool-call deltas of a sequence of lines, in order of arrival
RECURSIVE ToolDeltasOf(_)
ToolDeltasOf(lines) ==
    IF lines = <<>> THEN <<>>
    ELSE (IF HasDelta(Head(lines)) THEN DeltaOf(Head(lines)).tool_calls ELSE <<>>)
         \o ToolDeltasOf(Tail(lines))

\* the fragments one index received, concatenated in order of arrival
RECURSIVE Fragments(_, _, _)
Fragments(deltas, index, field) ==
    IF deltas = <<>> THEN <<>>
    ELSE (IF Head(deltas).index = index
          THEN CASE field = "id"        -> Head(deltas).id
                 [] field = "name"      -> Head(deltas).function.name
                 [] field = "arguments" -> Head(deltas).function.arguments
          ELSE <<>>)
         \o Fragments(Tail(deltas), index, field)

IndicesOf(deltas) == {deltas[i].index : i \in 1..Len(deltas)}

\* every round the upstream answered ended with a finish frame, sent last
RoundsWellEnded ==
    \A r \in 1..Len(calls) :
        LET lines == LinesOfRound(sent, r)
        IN  /\ lines # <<>>
            /\ IsFinishLine(Last(lines))
            /\ \A i \in 1..(Len(lines) - 1) :
                   ~IsFinishLine(lines[i]) /\ lines[i].kind # "sentinel"

NoTransportFailure == \A k \in 1..Len(calls) : calls[k].outcome = "200"

----------------------------------------------------------------------------
(* C1..C10                                                                 *)

\* C1: when the turn is over (and the client did not leave), the client
\* event stream holds exactly one terminal event (the completion event or
\* an error event) and that event is the last one of the stream.
C1_OneTerminalEvent ==
    (pc = "closed" /\ ~cancelled) =>
        /\ clientEvents # <<>>
        /\ Last(clientEvents).type \in {DoneType, "error"}
        /\ \A i \in 1..(Len(clientEvents) - 1) :
               clientEvents[i].type \notin {DoneType, "error"}

\* content*, tool_call_progress*, tool_call, tool_result, content*, done
MatchesOneToolTurn(types) ==
    LET a == DropWhileIn(DropWhileIn(types, {"content_chunk"}), {"tool_call_progress"})
    IN  /\ Len(a) >= 2
        /\ a[1] = "tool_call"
        /\ a[2] = "tool_result"
        /\ DropWhileIn(SubSeq(a, 3, Len(a)), {"content_chunk"}) = <<DoneType>>

\* the first round carried exactly one tool call, complete, and the second none
OneToolCallScript ==
    LET first  == ToolDeltasOf(LinesOfRound(sent, 1))
        second == ToolDeltasOf(LinesOfRound(sent, 2))
    IN  /\ user_tool_service
        /\ Len(calls) = 2
        /\ NoTransportFailure
        /\ RoundsWellEnded
        /\ Cardinality(IndicesOf(first)) = 1
        /\ \A index \in IndicesOf(first) :
               /\ Fragments(first, index, "name") # <<>>
               /\ ParseArguments(Fragments(first, index, "arguments")).ok
        /\ second = <<>>

\* C2: a turn whose first round carries exactly one complete tool call and
\* whose second round carries none invokes the tool exactly once, and its
\* client events are content*, tool_call_progress*, tool_call, tool_result,
\* content*, done.
C2_OneToolTurn ==
    (pc = "closed" /\ ~cancelled /\ OneToolCallScript) =>
        /\ Len(invocations) = 1
        /\ MatchesOneToolTurn(TypesOf(AfterStart(clientEvents)))

\* C2, the part without the completion event: the tool is invoked exactly
\* once and the events up to the end of the engine's stream are
\* content*, tool_call, tool_result, content*.
OneToolTurnUpToDone ==
    (pc = "persist" /\ OneToolCallScript) =>
        /\ Len(invocations) = 1
        /\ MatchesOneToolTurn(Append(TypesOf(AfterStart(clientEvents)), DoneType))

\* C3: the tool calls of one round are invoked in ascending index order,
\* whatever the order in which the indices arrived.
C3_IndexOrder ==
    \A i, j \in 1..Len(invocations) :
        (i < j /\ invocations[i].round = invocations[j].round)
            => invocations[i].index < invocations[j].index

\* C3 as the code has it: the calls of one round are invoked in the order
\* in which their indices first arrived.
FirstArrivalOrder ==
    \A i, j \in 1..Len(invocations) :
        (i < j /\ invocations[i].round = invocations[j].round) =>
            LET deltas == ToolDeltasOf(LinesOfRound(sent, invocations[i].round))
                first(index) == CHOOSE k \in 1..Len(deltas) :
                                    /\ deltas[k].index = index
                                    /\ \A m \in 1..(k - 1) : deltas[m].index # index
            IN  first(invocations[i].index) < first(invocations[j].index)

\* the content fragments of a sequence of lines, concatenated
RECURSIVE ContentOf(_)
ContentOf(log) ==
    IF log = <<>> THEN <<>>
    ELSE (IF HasDelta(Head(log).line) THEN DeltaOf(Head(log).line).content ELSE <<>>)
         \o ContentOf(Tail(log))

\* the chunks of the content events sent to the client, concatenated
RECURSIVE ChunksOf(_)
ChunksOf(evs) ==
    IF evs = <<>> THEN <<>>
    ELSE (IF Head(evs).type = "content_chunk" THEN Head(evs).data.chunk ELSE <<>>)
         \o ChunksOf(Tail(evs))

\* Every line the upstream sent was read before the engine returned: in no
\* round did a line follow a finish frame or the sentinel.
AllLinesConsumed ==
    \A r \in 1..Len(calls) :
        LET lines == LinesOfRound(sent, r)
        IN  \A i \in 1..(Len(lines) - 1) :
                ~IsFinishLine(lines[i]) /\ lines[i].kind # "sentinel"

\* no frame carries content together with reasoning or tool calls
SingleFieldFrames ==
    \A i \in 1..Len(sent) :
        HasDelta(sent[i].line) =>
            LET d == DeltaOf(sent[i].line)
            IN  d.content # <<>> => (d.reasoning = <<>> /\ d.tool_calls = <<>>)

\* C4: when the engine's stream has ended, the content events sent to the
\* client concatenate to the content fragments the upstream sent, however
\* the text was split into reads.
C4_ContentPreserved ==
    (pc = "persist" /\ AllLinesConsumed) => ChunksOf(clientEvents) = ContentOf(sent)

\* C4 for frames that carry content alone
ContentPreservedSingleField ==
    (pc = "persist" /\ AllLinesConsumed /\ SingleFieldFrames)
        => ChunksOf(clientEvents) = ContentOf(sent)

\* all lines sent in the current round have been decoded
CaughtUp == wire = <<>> /\ buffer = <<>>

\* C5: at the end of a round (and whenever the decoder has caught up with
\* the upstream), the id, name and arguments accumulated for every index are
\* the concatenation, in arrival order, of the fragments that index
\* received in the round; an index that received nothing has no entry.
C5_AccumulatedIsConcatenation ==
    (pc \in {"tools", "tool_await"} \/ (pc = "streaming" /\ CaughtUp)) =>
        LET deltas == ToolDeltasOf(LinesOfRound(sent, round))
        IN  /\ \A i \in 1..Len(accumulated_tool_calls) :
                   LET index == accumulated_tool_calls[i].key
                       e     == accumulated_tool_calls[i].value
                   IN  /\ e.id = Fragments(deltas, index, "id")
                       /\ e.function.name = Fragments(deltas, index, "name")
                       /\ e.function.arguments = Fragments(deltas, index, "arguments")
            /\ \A index \in IndicesOf(deltas) : HasKey(accumulated_tool_calls, index)

\* A round ended in which index 0 received two argument fragments with a
\* fragment of index 1 between them.
C5_Witness ==
    /\ pc = "tools"
    /\ LET deltas == ToolDeltasOf(LinesOfRound(sent, round))
       IN  \E i, j, k \in 1..Len(deltas) :
               /\ i < j /\ j < k
               /\ deltas[i].index = 0 /\ deltas[i].function.arguments # <<>>
               /\ deltas[j].index = 1
               /\ deltas[k].index = 0 /\ deltas[k].function.arguments # <<>>

\* an entry the engine abandons at round end
Malformed(tool_call) ==
    \/ tool_call.function.name = <<>>
    \/ tool_call.function.arguments = <<>>
    \/ ~ParseArguments(tool_call.function.arguments).ok

\* the entries of the round the for loop has already gone through
Processed ==
    SubSeq(accumulated_tool_calls, 1,
           Len(accumulated_tool_calls) - Len(pendingCalls) - Len(inflight))

\* C6: a malformed entry met at round end is not passed to the tool
\* capability, and the client receives a tool_error event that identifies
\* its index.  The event log spans the whole turn and an index can be
\* malformed again in a later round, so "exactly one per entry" is asked
\* here as "at least one in the log", which the stronger reading implies.
C6_MalformedReported ==
    pc = "tools" =>
        \A i \in 1..Len(Processed) :
            Malformed(Processed[i].value) =>
                /\ \A n \in 1..Len(invocations) :
                       ~(invocations[n].round = round
                         /\ invocations[n].index = Processed[i].key)
                /\ Cardinality({n \in 1..Len(clientEvents) :
                       /\ clientEvents[n].type = "tool_error"
                       /\ "index" \in DOMAIN clientEvents[n].data
                       /\ clientEvents[n].data.index = Processed[i].key}) >= 1

\* C6, the part the engine keeps: a malformed entry is never invoked, and
\* the engine yields a tool_error event for it.
MalformedNeverInvoked ==
    pc = "tools" =>
        \A i \in 1..Len(Processed) :
            Malformed(Processed[i].value) =>
                /\ \A n \in 1..Len(invocations) :
                       ~(invocations[n].round = round
                         /\ invocations[n].index = Processed[i].key)
                /\ \E n \in 1..Len(internalEvents) :
                       internalEvents[n].type = "tool_error"

\* C7: after a tool invocation that raised or returned an empty result,
\* the client has received a tool_error event for that call.
C7_ToolFailureReported ==
    \A n \in 1..Len(invocations) :
        invocations[n].outcome \in {"raises", "empty"} =>
            \E i \in 1..Len(clientEvents) :
                /\ clientEvents[i].type = "tool_error"
                /\ clientEvents[i].data.tool_name = invocations[n].tool_call.function.name

\* C7, the part the engine keeps: a failed tool invocation never ends the
\* turn; the loop goes on to the remaining calls and to the next upstream call.
ToolFailureNotFatal ==
    /\ (pc = "closed" /\ ~cancelled) =>
          \A n \in 1..Len(invocations) : Len(calls) > invocations[n].round
    /\ \A i \in 1..Len(clientEvents) :
          (clientEvents[i].type = "error" /\ clientEvents[i].data.cause \notin {"start", "persistence", "title"})
              => \E k \in 1..Len(calls) : calls[k].outcome # "200"

\* the transcript holds the assistant tool_calls message of an invocation,
\* immediately followed by the tool message with the failure text
FailureInTranscript(messages, inv) ==
    \E m \in 1..(Len(messages) - 1) :
        /\ messages[m].role = "assistant"
        /\ messages[m].tool_calls = <<inv.tool_call>>
        /\ messages[m + 1].role = "tool"
        /\ messages[m + 1].tool_call_id = inv.tool_call.id
        /\ messages[m + 1].content # <<>>
        /\ messages[m + 1].content[1] = "Tool execution failed: "

\* C8: after a tool invocation that failed, the transcript of every later
\* upstream call of the turn holds the assistant tool_calls message of that
\* call followed by a tool message with the call's id and the error text,
\* and so does the transcript the next call will be made with.
C8_FailureInTranscript ==
    \A n \in 1..Len(invocations) :
        invocations[n].outcome = "raises" =>
            /\ \A k \in 1..Len(calls) :
                   calls[k].round > invocations[n].round
                       => FailureInTranscript(calls[k].messages, invocations[n])
            /\ pc = "connect" => FailureInTranscript(current_messages, invocations[n])

\* A tool invocation failed and the upstream was called again afterwards.
C8_Witness ==
    \E n \in 1..Len(invocations) :
        /\ invocations[n].outcome = "raises"
        /\ \E k \in 1..Len(calls) :
               calls[k].round > invocations[n].round /\ calls[k].outcome = "200"

\* C9: once an upstream call has failed at the transport level it is the
\* last upstream call of the turn, the turn is over, the client has
\* received exactly one error event, as the last event, and no completion
\* event, and no tool invocation was started in or after the failed round.
C9_TransportFailureIsFinal ==
    \A k \in 1..Len(calls) :
        calls[k].outcome # "200" =>
            /\ k = Len(calls)
            /\ pc = "closed"
            /\ CountType(clientEvents, "error") = 1
            /\ CountType(clientEvents, DoneType) = 0
            /\ Last(clientEvents).type = "error"
            /\ inflight = <<>>
            /\ \A n \in 1..Len(invocations) :
                   invocations[n].round < k /\ invocations[n].outcome # "pending"

\* The second upstream call failed after a frame of it had been read, in a
\* turn that had invoked a tool.
C9_Witness ==
    \E k \in 2..Len(calls) :
        /\ calls[k].outcome = "timeout"
        /\ LinesOfRound(sent, k) # <<>>
        /\ invocations # <<>>
        /\ pc = "closed"

\* C10: the turn ends with the engine's error event only if an upstream
\* call failed at the transport level.
C10_ErrorOnlyOnTransport ==
    \A i \in 1..Len(clientEvents) :
        (clientEvents[i].type = "error" /\ clientEvents[i].data.message = "Streaming failed")
            => \E k \in 1..Len(calls) : calls[k].outcome # "200"

----------------------------------------------------------------------------
(* C11..C20                                                                *)

\* every line the upstream sent in the turn, in order
AllLines == [i \in 1..Len(sent) |-> sent[i].line]

ToolEventTypes == {"tool_call", "tool_call_progress", "tool_result", "tool_error"}

\* C11: a turn in which no tool-call delta arrived in any round, and which
\* ended without an error, gave the client exactly one completion event and
\* no tool_call, tool_call_progress, tool_result or tool_error event.
C11_NoToolCalls ==
    (/\ pc = "closed"
     /\ ~cancelled
     /\ ToolDeltasOf(AllLines) = <<>>
     /\ CountType(clientEvents, "error") = 0) =>
        /\ CountType(clientEvents, DoneType) = 1
        /\ \A i \in 1..Len(clientEvents) : clientEvents[i].type \notin ToolEventTypes

\* C11, the part about tools: without a tool-call delta the engine yields
\* no tool event, the client receives none, no tool is invoked and the
\* upstream is called once.
NoToolEventsWithoutToolDeltas ==
    ToolDeltasOf(AllLines) = <<>> =>
        /\ \A i \in 1..Len(clientEvents) : clientEvents[i].type \notin ToolEventTypes
        /\ \A i \in 1..Len(internalEvents) : internalEvents[i].type \notin ToolEventTypes
        /\ invocations = <<>>
        /\ Len(calls) <= 1

\* the text of a sequence of lines, concatenated as the upstream writes it
RECURSIVE TextOf(_)
TextOf(lines) ==
    IF lines = <<>> THEN <<>> ELSE Text(Head(lines)) \o TextOf(Tail(lines))

\* The chunks a text holds, read as a whole: its complete lines, decoded
\* one by one up to the sentinel.
RECURSIVE FramesOf(_)
FramesOf(text) ==
    IF ~HasNewline(text)
    THEN <<>>
    ELSE LET sp == SplitLine(text)
             d  == DecodeLine(sp.line)
         IN  CASE d.do = "return" -> <<>>
               [] d.do = "yield"  -> <<d.obj>> \o FramesOf(sp.rest)
               [] d.do = "skip"   -> FramesOf(sp.rest)

\* the chunks the decoder yielded in round r, in order
RECURSIVE ChunksOfRound(_, _)
ChunksOfRound(log, r) ==
    IF log = <<>> THEN <<>>
    ELSE IF Head(log).round = r
         THEN <<Head(log).obj>> \o ChunksOfRound(Tail(log), r)
         ELSE ChunksOfRound(Tail(log), r)

IsPrefix(s, t) == Len(s) <= Len(t) /\ s = SubSeq(t, 1, Len(s))

\* C12: the chunks the frame decoder yields depend only on the text the
\* upstream wrote, not on how the text was split into reads: in every round
\* they are a prefix of the chunks of the whole text, and they are all of
\* them once the decoder has caught up with the upstream.
C12_SplitIndependent ==
    /\ \A r \in 1..round :
           IsPrefix(ChunksOfRound(chunks, r), FramesOf(TextOf(LinesOfRound(sent, r))))
    /\ (pc = "streaming" /\ CaughtUp) =>
           ChunksOfRound(chunks, round) = FramesOf(TextOf(LinesOfRound(sent, round)))

\* Reads of at most MaxRead symbols delivered two frames, each longer than
\* a read, with a skipped line between or around them, and both were decoded.
C12_Witness ==
    /\ splitReads
    /\ pc = "streaming"
    /\ CaughtUp
    /\ Len(ChunksOfRound(chunks, round)) >= 2
    /\ Len(LinesOfRound(sent, round)) > Len(ChunksOfRound(chunks, round))
    /\ \A i \in 1..Len(sent) : Len(Text(sent[i].line)) > MaxRead \/ sent[i].line.kind # "frame"

\* a payload that json.loads rejects
Unparseable(line) == line.kind = "truncated"

\* a payload that parses but does not have the shape of a chunk's delta
WrongShape(line) ==
    /\ line.kind = "frame"
    /\ Len(line.obj.choices) > 0
    /\ line.obj.choices[1].delta.null

MalformedFrame(line) == Unparseable(line) \/ WrongShape(line)

\* the events of a sequence of lines when the malformed ones are dropped
\* and every other frame is handled, starting from accumulator acc
RECURSIVE ExpectedEvents(_, _)
ExpectedEvents(lines, acc) ==
    IF lines = <<>> THEN <<>>
    ELSE IF Head(lines).kind = "frame" /\ ~WrongShape(Head(lines))
         THEN LET h == HandleChunk(acc, Head(lines).obj)
              IN  h.events \o ExpectedEvents(Tail(lines), h.acc)
         ELSE ExpectedEvents(Tail(lines), acc)

\* C13: a malformed frame is dropped without aborting the turn: when no
\* upstream call failed, the turn does not end with the engine's error
\* event, and the events of the first round are those of its other frames,
\* the frames after the malformed one included.
C13_MalformedFrameDropped ==
    (/\ \E i \in 1..Len(sent) : MalformedFrame(sent[i].line)
     /\ NoTransportFailure) =>
        /\ \A i \in 1..Len(clientEvents) :
               ~(/\ clientEvents[i].type = "error"
                 /\ clientEvents[i].data.message = "Streaming failed")
        /\ (pc = "streaming" /\ CaughtUp /\ round = 1) =>
               internalEvents = ExpectedEvents(LinesOfRound(sent, 1), <<>>)

\* C13 for payloads that are not JSON: the frame is dropped, no event is
\* yielded for it, the frames after it are handled and the turn does not
\* end in error.
UnparseableFrameDropped ==
    (/\ \E i \in 1..Len(sent) : Unparseable(sent[i].line)
     /\ \A i \in 1..Len(sent) : ~WrongShape(sent[i].line)
     /\ NoTransportFailure) =>
        /\ \A i \in 1..Len(clientEvents) :
               ~(/\ clientEvents[i].type = "error"
                 /\ clientEvents[i].data.message = "Streaming failed")
        /\ (pc = "streaming" /\ CaughtUp /\ round = 1) =>
               internalEvents = ExpectedEvents(LinesOfRound(sent, 1), <<>>)

\* an unparseable payload was followed by a frame that yielded an event
UnparseableFrameDroppedCase ==
    /\ pc = "streaming" /\ CaughtUp /\ round = 1
    /\ \E i \in 1..Len(sent) : Unparseable(sent[i].line)
    /\ ~Unparseable(Last(sent).line)
    /\ internalEvents # <<>>

\* the invocations of round r for the entry of a given index
InvocationsOf(r, index) ==
    {n \in 1..Len(invocations) :
        invocations[n].round = r /\ invocations[n].index = index}

\* tool_messages holds the assistant message and the tool message of a call
Recorded(messages, tool_call) ==
    \E m \in 1..(Len(messages) - 1) :
        /\ messages[m].role = "assistant"
        /\ messages[m].tool_calls = <<tool_call>>
        /\ messages[m + 1].role = "tool"
        /\ messages[m + 1].tool_call_id = tool_call.id

\* C14: at the end of the for loop of a round that held a malformed entry,
\* every well-formed entry of the round has been invoked exactly once, has
\* returned and is recorded, and the turn has not ended: the loop is about
\* to call the upstream again.
C14_WellFormedStillInvoked ==
    (/\ pc = "tools"
     /\ pendingCalls = <<>>
     /\ \E i \in 1..Len(accumulated_tool_calls) :
            Malformed(accumulated_tool_calls[i].value)) =>
        /\ \A i \in 1..Len(accumulated_tool_calls) :
               LET e == accumulated_tool_calls[i]
               IN  ~Malformed(e.value) =>
                       /\ Cardinality(InvocationsOf(round, e.key)) = 1
                       /\ \A n \in InvocationsOf(round, e.key) :
                              /\ invocations[n].outcome # "pending"
                              /\ invocations[n].tool_call = e.value
                       /\ Recorded(tool_messages, e.value)
        /\ CountType(clientEvents, "error") = 0
        /\ ENABLED EndToolRound

\* The for loop ended in a round whose first entry was malformed and whose
\* second entry was well-formed.
C14_Witness ==
    /\ pc = "tools"
    /\ pendingCalls = <<>>
    /\ Len(accumulated_tool_calls) = 2
    /\ Malformed(accumulated_tool_calls[1].value)
    /\ ~Malformed(accumulated_tool_calls[2].value)

\* C15: at most one tool invocation is in flight at any time, and when an
\* invocation starts, the previous one has returned and its result is
\* recorded in the transcript being built.
C15_OneInFlight ==
    /\ Cardinality({n \in 1..Len(invocations) : invocations[n].outcome = "pending"}) <= 1
    /\ Len(inflight) <= 1
    /\ \A n \in 2..Len(invocations) :
           /\ invocations[n - 1].outcome # "pending"
           /\ Recorded(current_messages \o tool_messages, invocations[n - 1].tool_call)

\* The second tool call of a round is in flight.
C15_Witness ==
    /\ pc = "tool_await"
    /\ \E n \in 2..Len(invocations) :
           /\ invocations[n].outcome = "pending"
           /\ invocations[n - 1].round = invocations[n].round

\* the type under which the emitter forwards an internal event type
ClientTypeOf(type) == IF type = "content" THEN "content_chunk" ELSE type

ForwardedTypes == {"content", "tool_call", "tool_result"}

\* the internal events that have a client event, as <<client type, payload>>
RECURSIVE ProducedOrder(_)
ProducedOrder(evs) ==
    IF evs = <<>> THEN <<>>
    ELSE (IF Head(evs).type \in ForwardedTypes
          THEN << <<ClientTypeOf(Head(evs).type), Head(evs).data>> >>
          ELSE <<>>)
         \o ProducedOrder(Tail(evs))

\* the client events that stand for an internal event, as <<type, payload>>
RECURSIVE EmittedOrder(_)
EmittedOrder(evs) ==
    IF evs = <<>> THEN <<>>
    ELSE (CASE Head(evs).type = "content_chunk" ->
                  << <<"content_chunk", Head(evs).data.chunk>> >>
            [] Head(evs).type \in {"tool_call", "tool_result"} ->
                  << <<Head(evs).type, Head(evs).data>> >>
            [] OTHER -> <<>>)
         \o EmittedOrder(Tail(evs))

\* C16: at every moment the client events that stand for internal events
\* are, in order and one for one, the internal events produced so far:
\* nothing is held back, batched or reordered, within a round and across
\* rounds.
C16_EmissionOrder ==
    EmittedOrder(AfterStart(clientEvents)) = ProducedOrder(internalEvents)

\* Content of the first round, a tool call and its result, and content of
\* the second round have been produced.
C16_Witness ==
    /\ round = 2
    /\ \E i, j, k, m \in 1..Len(internalEvents) :
           /\ i < j /\ j < k /\ k < m
           /\ internalEvents[i].type = "content"
           /\ internalEvents[j].type = "tool_call"
           /\ internalEvents[k].type = "tool_result"
           /\ internalEvents[m].type = "content"

\* the client event types of the specification, under the names the code
\* gives them (content is content_chunk, done is the completion event)
SpecClientTypes ==
    {"content_chunk", "reasoning", "tool_call", "tool_call_progress",
     "tool_result", "tool_error", DoneType, "error"}

\* C17: while the engine's stream is being consumed, every internal event
\* produced so far has exactly one client event, of the corresponding type
\* and in the same position, and every client event of the turn has a type
\* of the specification; so reasoning, tool_call_progress and tool_error
\* events reach the client.
C17_EveryEventMapped ==
    pc \in {"connect", "streaming", "tools", "tool_await", "persist"} =>
        LET out == AfterStart(clientEvents)
        IN  /\ Len(out) = Len(internalEvents)
            /\ \A i \in 1..Len(out) :
                   /\ out[i].type = ClientTypeOf(internalEvents[i].type)
                   /\ out[i].type \in SpecClientTypes

\* C17, the part the emitter keeps: every client event of the engine's
\* stream has a type of the specification, and content, tool_call and
\* tool_result events each have exactly one client event.
ForwardedEventsMapped ==
    pc \in {"connect", "streaming", "tools", "tool_await", "persist"} =>
        LET out == AfterStart(clientEvents)
        IN  /\ \A i \in 1..Len(out) : out[i].type \in SpecClientTypes
            /\ \A type \in ForwardedTypes :
                   CountType(out, ClientTypeOf(type)) = CountType(internalEvents, type)

\* C18: from the step in which the turn's task is cancelled on, the
\* decoder yields no further chunk, no tool invocation is started, no
\* upstream call is made and no response is opened; and every response
\* that is still open is eventually released.
C18_Cancellation ==
    /\ [][cancelled' =>
            /\ chunks' = chunks
            /\ Len(invocations') = Len(invocations)
            /\ calls' = calls
            /\ sent' = sent
            /\ open_streams' \subseteq open_streams]_vars
    /\ (cancelled ~> (open_streams = {}))

\* The task was cancelled while a tool call was in flight and another entry
\* of the round had not been started; the response of the first round is
\* still open.
C18_Witness ==
    /\ cancelled
    /\ \E n \in 1..Len(invocations) : invocations[n].outcome = "cancelled"
    /\ pendingCalls # <<>>
    /\ open_streams # {}

\* the failure kinds of the specification, by the message that carries them
KindOf(message) ==
    CASE message = "Invalid API key"       -> "invalid credential"
      [] message = "Insufficient credits"  -> "insufficient balance"
      [] message = "Payment required"      -> "insufficient balance"
      [] message = "Rate limit exceeded"   -> "rate limited"
      [] message = "Model is not available" -> "unknown model"
      [] message = "Invalid request"       -> "invalid request"
      [] OTHER                             -> "generic"

\* the kind the specification gives an error status
SpecKind(status_code) ==
    CASE status_code = "401" -> "invalid credential"
      [] status_code = "402" -> "insufficient balance"
      [] status_code = "429" -> "rate limited"
      [] status_code = "404" -> "unknown model"
      [] OTHER               -> "generic"

\* the kind the code gives an error status
CodeKind(status_code) ==
    IF status_code = "422" THEN "invalid request" ELSE SpecKind(status_code)

FinishDelivered(r) ==
    \E i \in 1..Len(chunks) :
        /\ chunks[i].round = r
        /\ Len(chunks[i].obj.choices) > 0
        /\ chunks[i].obj.choices[1].finish_reason # ""

\* C20: in every round the accumulated entries are looked at (validated,
\* parsed, invoked) only after the round's stream delivered a chunk with a
\* finish_reason; when the stream ends without one, no entry is parsed or
\* executed.
C20_OnlyAfterFinish ==
    /\ pc \in {"tools", "tool_await"} => FinishDelivered(round)
    /\ \A n \in 1..Len(invocations) : FinishDelivered(invocations[n].round)

\* C20 for the first round: its entries are looked at only after its
\* finish chunk, and a first round that ends without one runs no tool.
FirstRoundOnlyAfterFinish ==
    /\ (round = 1 /\ pc \in {"tools", "tool_await"}) => FinishDelivered(1)
    /\ \A n \in 1..Len(invocations) :
           invocations[n].round = 1 => FinishDelivered(1)
    /\ (round = 1 /\ ~FinishDelivered(1)) =>
           \A i \in 1..Len(internalEvents) :
               internalEvents[i].type \notin {"tool_call", "tool_result", "tool_error"}

----------------------------------------------------------------------------
(* C21..C30                                                                *)

\* the accumulator of round r held an entry when the round's stream stopped
\* being read: a delivered chunk of the round carried tool-call deltas
AccumulatedInRound(r) ==
    \E i \in 1..Len(chunks) :
        /\ chunks[i].round = r
        /\ Len(chunks[i].obj.choices) > 0
        /\ ~chunks[i].obj.choices[1].delta.null
        /\ chunks[i].obj.choices[1].delta.tool_calls # <<>>

\* what follows the finish chunk of round r: the turn is over with r as its
\* last upstream call, or the tool loop runs and leads to another call
CompletedAt(r) == r = round /\ pc \in {"persist", "title", "closed"}

ContinuedAfter(r) ==
    \/ r < round
    \/ r = round /\ pc \in {"tools", "tool_await", "connect"}

\* C21: when the finish chunk of a round has arrived, the turn completes
\* without a further upstream call if and only if the accumulator is empty;
\* with an entry in it the tool loop starts and the upstream is called again.
C21_FinishDecides ==
    \A r \in 1..round :
        FinishDelivered(r) =>
            /\ ~AccumulatedInRound(r) => CompletedAt(r)
            /\ AccumulatedInRound(r) => (ContinuedAfter(r) \/ (cancelled /\ r = round))

\* C21 as amended: the same in a turn for which tools are enabled.
C21_FinishDecidesWithTools ==
    user_tool_service =>
        \A r \in 1..round :
            FinishDelivered(r) =>
                /\ ~AccumulatedInRound(r) => CompletedAt(r)
                /\ AccumulatedInRound(r) => (ContinuedAfter(r) \/ (cancelled /\ r = round))

\* The first round finished with an entry, its tool ran, and the second
\* round finished with an empty accumulator: the turn is complete.
C21_Witness ==
    /\ user_tool_service
    /\ round = 2
    /\ FinishDelivered(1) /\ AccumulatedInRound(1)
    /\ FinishDelivered(2) /\ ~AccumulatedInRound(2)
    /\ invocations # <<>>
    /\ pc = "persist"

\* the deltas of the chunks handed to the delta handling, in order
DeliveredDeltas ==
    LET idx == {i \in 1..Len(chunks) :
                    /\ Len(chunks[i].obj.choices) > 0
                    /\ ~chunks[i].obj.choices[1].delta.null}
    IN  [i \in idx |-> chunks[i].obj.choices[1].delta]

\* how many delivered deltas carry the field
CarryingContent ==
    Cardinality({i \in DOMAIN DeliveredDeltas : DeliveredDeltas[i].content # <<>>})

CarryingReasoning ==
    Cardinality({i \in DOMAIN DeliveredDeltas : DeliveredDeltas[i].reasoning # <<>>})

CarryingToolCalls ==
    Cardinality({i \in DOMAIN DeliveredDeltas : DeliveredDeltas[i].tool_calls # <<>>})

\* C22: every field a delivered delta carries is processed, whatever other
\* fields the same delta carries: one content event for every delta with
\* content, one reasoning event for every delta with reasoning, and the
\* tool-call fragments of every delta with tool calls accumulated (one
\* progress event each).
C22_EveryFieldProcessed ==
    /\ CountType(internalEvents, "content") = CarryingContent
    /\ CountType(internalEvents, "reasoning") = CarryingReasoning
    /\ CountType(internalEvents, "tool_call_progress") = CarryingToolCalls

\* the accumulator built from the chunks of round r alone
RECURSIVE AccumulatedFrom(_, _)
AccumulatedFrom(log, r) ==
    IF log = <<>> THEN <<>>
    ELSE LET before == AccumulatedFrom(SubSeq(log, 1, Len(log) - 1), r)
             chunk  == log[Len(log)]
         IN  IF chunk.round = r /\ ~HandleChunk(before, chunk.obj).raised
             THEN HandleChunk(before, chunk.obj).acc
             ELSE before

\* C23: the accumulator is empty when an upstream call is made, so what it
\* holds during a round comes from that round's chunks alone, and an
\* accumulated entry is invoked at most once: every invocation of a round
\* is of an entry accumulated in that round, once per entry.
C23_AccumulatorPerRound ==
    /\ pc = "connect" => accumulated_tool_calls = <<>>
    /\ pc \in {"streaming", "tools", "tool_await"} =>
            accumulated_tool_calls = AccumulatedFrom(chunks, round)
    /\ \A n \in 1..Len(invocations) :
            LET inv == invocations[n]
                acc == AccumulatedFrom(chunks, inv.round)
            IN  /\ HasKey(acc, inv.index)
                /\ Lookup(acc, inv.index) = inv.tool_call
                /\ Cardinality(InvocationsOf(inv.round, inv.index)) = 1

\* The third upstream call is about to be made: the first round's entry
\* was invoked in the first tool loop, the second round's in the second.
C23_Witness ==
    /\ round = 2
    /\ pc = "connect"
    /\ Len(invocations) = 2
    /\ invocations[1].round = 1 /\ invocations[2].round = 2

\* the two messages the for loop appends for an executed call
MessagesOf(inv) ==
    << [role |-> "assistant", tool_calls |-> <<inv.tool_call>>],
       [role |-> "tool", tool_call_id |-> inv.tool_call.id,
        content |-> ExecuteToolCall(inv.tool_call.function.name, inv.outcome).result] >>

\* the messages of the executed calls of the rounds in R, in execution order
RECURSIVE MessagesOfRounds(_, _)
MessagesOfRounds(log, R) ==
    IF log = <<>> THEN <<>>
    ELSE (IF Head(log).round \in R /\ Head(log).outcome \in ToolOutcomes
          THEN MessagesOf(Head(log)) ELSE <<>>)
         \o MessagesOfRounds(Tail(log), R)

\* C24: the transcript grows by appending only.  The transcript of the k-th
\* upstream call is the conversation followed, for each call executed in
\* the rounds before k and in execution order, by an assistant tool_calls
\* message and the tool message with that call's id and result; the
\* messages of the running round are collected in the same way; and each
\* call's transcript extends the transcript of the call before it.
C24_TranscriptAppendOnly ==
    /\ \A k \in 1..Len(calls) :
            calls[k].messages = openrouter_messages \o MessagesOfRounds(invocations, 1..(k - 1))
    /\ \A k \in 2..Len(calls) : IsPrefix(calls[k - 1].messages, calls[k].messages)
    /\ pc \in {"tools", "tool_await"} =>
            tool_messages = MessagesOfRounds(invocations, {round})

\* A follow-up call was made with the messages of two executed calls
\* appended to the conversation.
C24_Witness ==
    /\ Len(calls) >= 2
    /\ Len(Last(calls).messages) = Len(openrouter_messages) + 4

\* every entry accumulated in round r has been gone through: invoked, with
\* the invocation over, or abandoned as malformed
EntriesSettled(r) ==
    LET acc == AccumulatedFrom(chunks, r)
    IN  \A i \in 1..Len(acc) :
            IF Malformed(acc[i].value)
            THEN InvocationsOf(r, acc[i].key) = {}
            ELSE \E n \in InvocationsOf(r, acc[i].key) :
                    invocations[n].outcome \in ToolOutcomes

\* C25: a round is one upstream call (the k-th call is the call of round
\* k and there is no other), and the call of round k+1 is made only when
\* every entry of round k has been executed or abandoned and the messages
\* of the executed ones are in the transcript the call sends.
C25_ReinvokedAfterRound ==
    /\ Len(calls) = round
    /\ \A k \in 1..Len(calls) : calls[k].round = k
    /\ \A k \in 2..Len(calls) :
            /\ EntriesSettled(k - 1)
            /\ calls[k].messages =
                    calls[k - 1].messages \o MessagesOfRounds(invocations, {k - 1})

\* The second call was made after a round with two entries, one executed and
\* one abandoned.
C25_Witness ==
    /\ Len(calls) = 2
    /\ Len(AccumulatedFrom(chunks, 1)) = 2
    /\ Cardinality({n \in 1..Len(invocations) : invocations[n].round = 1}) = 1

\* C26: every follow-up call is made with a transcript strictly longer than
\* that of the call before it.
C26_TranscriptGrows ==
    \A k \in 2..Len(calls) : Len(calls[k].messages) > Len(calls[k - 1].messages)

\* C26 for the rounds in which an entry was invoked, the tool failing or not
TranscriptGrowsAfterInvocation ==
    \A k \in 2..Len(calls) :
        (\E n \in 1..Len(invocations) : invocations[n].round = k - 1)
            => Len(calls[k].messages) > Len(calls[k - 1].messages)

\* event ev closes the tool_call event call: a tool_result or a tool_error
\* that names the same tool
Closes(ev, call) ==
    \/ ev.type = "tool_result" /\ ev.data.name = call.data.name
    \/ /\ ev.type = "tool_error"
       /\ "tool_name" \in DOMAIN ev.data
       /\ ev.data.tool_name = call.data.name

\* In a sequence of events every tool_call is directly followed by the event
\* that closes it, the last one excepted while its tool is still awaited,
\* and every tool_result directly follows its tool_call.
CallsPaired(evs) ==
    \A i \in 1..Len(evs) :
        /\ evs[i].type = "tool_call" =>
                IF i = Len(evs)
                THEN pc = "tool_await" \/ cancelled
                ELSE Closes(evs[i + 1], evs[i])
        /\ evs[i].type = "tool_result" =>
                i > 1 /\ evs[i - 1].type = "tool_call" /\ Closes(evs[i], evs[i - 1])

\* C27: in the engine's stream and in the client's, every tool_call event
\* is followed by exactly one tool_result or tool_error event for the same
\* call before any other event and before the end of the turn, and a
\* tool_result never appears without its tool_call right before it.  A turn
\* cancelled while the tool is awaited ends with the open tool_call.
C27_CallThenResult ==
    CallsPaired(internalEvents) /\ CallsPaired(clientEvents)

\* Two calls of one round were announced and closed one after the other.
C27_Witness ==
    /\ CountType(internalEvents, "tool_call") = 2
    /\ CountType(internalEvents, "tool_result") = 2
    /\ CountType(clientEvents, "tool_result") = 2
    /\ round = 1

\* C28: in a turn for which tools were not enabled no tool is invoked, no
\* entry is gone through and no follow-up call is made, whatever tool-call
\* deltas arrive; the finish chunk of the first round ends the engine's
\* stream.
C28_ToolsDisabled ==
    ~user_tool_service =>
        /\ invocations = <<>>
        /\ \A i \in 1..Len(internalEvents) :
                internalEvents[i].type \notin {"tool_call", "tool_result", "tool_error"}
        /\ Len(calls) <= 1
        /\ pc \notin {"tools", "tool_await"}
        /\ FinishDelivered(1) => pc \in {"persist", "title", "closed"}

\* Tools were not enabled, the upstream sent tool-call deltas all the same,
\* and the finish chunk ended the stream.
C28_Witness ==
    /\ ~user_tool_service
    /\ AccumulatedInRound(1)
    /\ FinishDelivered(1)
    /\ pc = "persist"

\* the payloads of the data lines among the lines, up to the sentinel
RECURSIVE PayloadsBeforeSentinel(_)
PayloadsBeforeSentinel(lines) ==
    IF lines = <<>> \/ Head(lines).kind = "sentinel"
    THEN <<>>
    ELSE (IF Head(lines).kind = "frame" THEN <<Head(lines).obj>> ELSE <<>>)
         \o PayloadsBeforeSentinel(Tail(lines))

\* C29: in every round the chunks the decoder yielded are, in order, payloads
\* of data lines the upstream sent before the sentinel: a blank line, an
\* event line or a comment yields nothing, the sentinel is not yielded, and
\* nothing is yielded for a line after it.
C29_OnlyDataLinesYield ==
    \A r \in 1..round :
        IsPrefix(ChunksOfRound(chunks, r), PayloadsBeforeSentinel(LinesOfRound(sent, r)))

\* a line of the given kind was sent in round r before line number i
SentBefore(r, i, kind) ==
    \E j \in 1..(i - 1) : sent[j].round = r /\ sent[j].line.kind = kind

\* After a data line the sentinel ended the round, with a further data line
\* behind it: one chunk was yielded.
C29_Witness ==
    /\ pc = "persist"
    /\ \E i \in 1..Len(sent) :
            /\ sent[i].line.kind = "frame"
            /\ SentBefore(1, i, "sentinel")
    /\ \E i \in 1..Len(sent) :
            /\ sent[i].line.kind = "frame"
            /\ ~SentBefore(1, i, "sentinel")
    /\ Len(ChunksOfRound(chunks, 1)) = 1

\* each of the first n rounds finished with an entry in the accumulator,
\* and round n is the latest
AllRoundsAskedForTools(n) ==
    /\ round = n
    /\ \A r \in 1..n : FinishDelivered(r) /\ AccumulatedInRound(r)

----------------------------------------------------------------------------
(* C31..C38                                                                *)

\* the generator of stream_chat_completion has ended: the turn is past the
\* engine's stream, and the generator is not waiting to be closed
GeneratorEnded ==
    /\ pc \in {"persist", "title", "closed"}
    /\ ~(cancelled /\ tool_service = "guarded")

\* C31: once the tool service of the turn was created, cleanup is called
\* exactly once when the generator ends, whatever the exit: never twice,
\* never before the end, and once when the generator has ended.
C31_CleanupOnce ==
    /\ cleanups <= 1
    /\ cleanups = 1 => GeneratorEnded
    /\ (tool_service # "none" /\ GeneratorEnded) => cleanups = 1

\* C31 for the exits from inside the try statement
CleanupOnceInsideTry ==
    /\ cleanups <= 1
    /\ cleanups = 1 => GeneratorEnded
    /\ (tool_service \notin {"none", "created"} /\ GeneratorEnded) => cleanups = 1

\* the service was cleaned up after a cancellation, by the finally clause
\* of the cancelled task or by the closing of the abandoned generator
CleanupOnceInsideTryCase ==
    /\ cancelled
    /\ cleanups = 1
    /\ invocations # <<>>

\* a call that runs alone, after it was given the chunks of log: its
\* position, events, transcript and accumulator
RECURSIVE Alone(_)
Alone(log) ==
    IF log = <<>>
    THEN [pc |-> "streaming", events |-> <<>>, messages |-> openrouter_messages,
          acc |-> <<>>]
    ELSE LET before == Alone(SubSeq(log, 1, Len(log) - 1))
             loop   == ToolLoop(before.acc)
             ready  == IF before.pc = "tools"
                       THEN [pc |-> "streaming",
                             events |-> before.events \o loop.events,
                             messages |-> before.messages \o loop.messages,
                             acc |-> <<>>]
                       ELSE before
             h      == HandleChunk(ready.acc, log[Len(log)])
         IN  [pc |-> IF ~h.finish THEN "streaming"
                     ELSE IF h.acc # <<>> THEN "tools" ELSE "done",
              events |-> ready.events \o h.events,
              messages |-> ready.messages,
              acc |-> h.acc]

\* what a call running alone shows once a pending for loop has run
AloneSettled(log) ==
    LET a == Alone(log)
        loop == ToolLoop(a.acc)
    IN  IF a.pc = "tools"
        THEN [events |-> a.events \o loop.events, messages |-> a.messages \o loop.messages]
        ELSE [events |-> a.events, messages |-> a.messages]

RECURSIVE SentContent(_)
SentContent(n) ==
    IF n = 0 THEN <<>>
    ELSE IF clientEvents[n].type = "content_chunk"
         THEN SentContent(n - 1) \o clientEvents[n].data.chunk
         ELSE SentContent(n - 1)

\* C33: the content_length of each content_chunk event is the total length
\* of the content chunks sent so far in the turn, that chunk included, and
\* the assistant message saved at the end of the turn holds the
\* concatenation, in order, of the content chunks sent to the client.
C33_ContentAccounting ==
    \A n \in 1..Len(clientEvents) :
        /\ clientEvents[n].type = "content_chunk"
              => clientEvents[n].data.content_length = Len(SentContent(n))
        /\ clientEvents[n].type = "assistant_message_complete"
              => clientEvents[n].data.content = SentContent(Len(clientEvents))

\* An assistant message was saved after several content chunks, with tool
\* events between them.
C33_Witness ==
    \E n \in 1..Len(clientEvents) :
        /\ clientEvents[n].type = "assistant_message_complete"
        /\ Len(clientEvents[n].data.content) >= 2
        /\ \E i, j, k \in 1..(n - 1) :
              /\ i < j /\ j < k
              /\ clientEvents[i].type = "content_chunk"
              /\ clientEvents[j].type = "tool_result"
              /\ clientEvents[k].type = "content_chunk"

\* C34: no upstream call is made for a model other than openai/gpt-4o-mini
\* unless the profile holds an OpenRouter API key, and the turn then fails
\* before any call; with a key the call is made by a client that holds the
\* user's key; for openai/gpt-4o-mini the call is always made by the shared
\* client.
C34_KeyGatesModel ==
    /\ \A k \in 1..Len(calls) :
          IF model_to_use = DefaultModel
          THEN calls[k].client = SettingsKey
          ELSE openrouter_api_key # "" /\ calls[k].client = openrouter_api_key
    /\ (model_to_use # DefaultModel /\ openrouter_api_key = "")
          => /\ calls = <<>>
             /\ client_to_use = "unset"
             /\ pc \in {"start", "setup", "closed"}
             /\ (pc = "closed" /\ ~cancelled)
                   => clientEvents[Len(clientEvents)].type = "error"

\* The default model was called with the shared client although the profile
\* holds a key.
C34_Witness ==
    /\ model_to_use = DefaultModel
    /\ openrouter_api_key = "user_key"
    /\ Len(calls) >= 2
    /\ calls[2].client = SettingsKey

\* Another model was called, first and again after a tool round, with the
\* user's key.
C34_WitnessUserKey ==
    /\ model_to_use # DefaultModel
    /\ Len(calls) >= 2
    /\ calls[2].client = "user_key"

\* A turn for another model without a key ended before any call.
C34_WitnessRefused ==
    /\ model_to_use # DefaultModel
    /\ openrouter_api_key = ""
    /\ pc = "closed"
    /\ ~cancelled
    /\ clientEvents # <<>>
    /\ clientEvents[Len(clientEvents)]
          = StreamingFailed("Model requires a personal OpenRouter API key")

\* C35: once update_conversation has returned, every get_conversation that
\* returns afterwards yields data at least as new as that update, and the
\* cache never holds a value older than the last completed update.
C35_FreshAfterUpdate ==
    /\ \A n \in 1..Len(returned) : returned[n].data >= returned[n].completed
    /\ cache.present => cache.data >= completed

\* A get_conversation that found a valid entry returned a version older
\* than an update that had returned before.
C35_StaleHit ==
    /\ returned # <<>>
    /\ returned[Len(returned)].data < returned[Len(returned)].completed
    /\ returned[Len(returned)].hit
    /\ \A p \in Callers : callers[p].pc = "idle"
    /\ cache.present /\ cache.data < db

\* The first n messages of the original conversation, as a branch holds
\* them: role and content of each, in the original order.
OriginalPrefix(n) == [i \in 1..n |-> [role |-> original_messages[i].role,
                                    content |-> original_messages[i].content]]

\* C36: the messages created in a new branch are, in original order, the
\* prefix of the original conversation's messages up to and including the
\* branch-point message for create_conversation_branch and strictly before
\* it for edit and retry branches, and the edit branch then holds the new
\* user message as its last message.
C36_BranchHoldsPrefix ==
    \A b \in 1..Len(branches) :
        branches[b].outcome = "created" =>
            CASE branches[b].kind = "branch" ->
                    branches[b].created = OriginalPrefix(branches[b].id)
              [] branches[b].kind = "retry" ->
                    branches[b].created = OriginalPrefix(branches[b].id - 1)
              [] branches[b].kind = "edit" ->
                    branches[b].created
                        = Append(OriginalPrefix(branches[b].id - 1),
                                 [role |-> "user", content |-> branches[b].new_content])

\* The same, with the new user message required of an edit only when its
\* new content is not empty; an edit with empty content holds the prefix
\* alone.
BranchHoldsPrefixOrEmptyEdit ==
    \A b \in 1..Len(branches) :
        branches[b].outcome = "created" =>
            CASE branches[b].kind = "branch" ->
                    branches[b].created = OriginalPrefix(branches[b].id)
              [] branches[b].kind = "retry" ->
                    branches[b].created = OriginalPrefix(branches[b].id - 1)
              [] branches[b].kind = "edit" ->
                    branches[b].created
                        = IF branches[b].new_content = ""
                          THEN OriginalPrefix(branches[b].id - 1)
                          ELSE Append(OriginalPrefix(branches[b].id - 1),
                                 [role |-> "user", content |-> branches[b].new_content])

\* An edit of the third message and a branch from the second were created.
BranchHoldsPrefixCase ==
    /\ Len(branches) = 2
    /\ branches[1].kind = "edit" /\ branches[1].id = 3
    /\ Len(branches[1].created) = 3
    /\ branches[2].kind = "branch" /\ branches[2].id = 2
    /\ Len(branches[2].created) = 2

\* An edit with empty content was accepted and its branch ends with the
\* message before the edited one.
C36_EmptyEdit ==
    \E b \in 1..Len(branches) :
        /\ branches[b].kind = "edit" /\ branches[b].outcome = "created"
        /\ branches[b].new_content = ""
        /\ branches[b].created = OriginalPrefix(branches[b].id - 1)
        /\ branches[b].id > 1

\* tool_name has the name of a known client and an underscore at its start
HasKnownPrefix(tool_name) ==
    \E c \in KnownClients : StartsWith(tool_name, c \o <<Underscore>>)

\* C37: for every known client c and every tool name t, the published name
\* c_t is resolved by execute_tool_call to client c and tool t, and when the
\* client is there the call goes to c with t; a name with no known client
\* prefix reaches no client and yields a 'Tool execution failed' result.
C37_NamesRoundTrip ==
    /\ \A c \in KnownClients, t \in McpToolNames :
          \A e \in 1..Len(executions) :
              executions[e].name = ConvertMcpToOpenaiTool(t, c) =>
                  /\ executions[e].resolved.found
                  /\ executions[e].resolved.client_name = c
                  /\ executions[e].resolved.actual_tool_name = t
                  /\ executions[e].reached \in {<<>>, <<[client |-> c, tool |-> t]>>}
                  /\ executions[e].reached = <<>> => executions[e].result.failed
    /\ \A e \in 1..Len(executions) :
          ~HasKnownPrefix(executions[e].name) =>
              /\ executions[e].reached = <<>>
              /\ executions[e].result.failed
              /\ executions[e].result.text[1] = "Tool execution failed: "

\* The tool tavily_list of the client sequential_thinking was published and
\* called by its published name, and the call reached that client.
C37_Witness ==
    /\ openai_tools # <<>>
    /\ openai_tools[1].client = <<"sequential", Underscore, "thinking">>
    /\ openai_tools[1].tool = <<"tavily", Underscore, "list">>
    /\ executions # <<>>
    /\ executions[1].name = openai_tools[1].name
    /\ executions[1].reached
          = <<[client |-> openai_tools[1].client, tool |-> openai_tools[1].tool]>>

\* A name with an underscore and no known client at its start was refused.
C37_WitnessUnknown ==
    /\ executions # <<>>
    /\ executions[1].name = <<"sequential", Underscore, "list">>
    /\ executions[1].reached = <<>>
    /\ executions[1].result = ToolExecutionFailed("Unknown MCP client for tool")

\* C38: a connect() whose connection or initialization fails terminates:
\* it cleans up, releases the lock and re-raises, and a later connect() or
\* cleanup() on the client proceeds.
C38_FailedConnectTerminates ==
    \A t \in Tasks :
        (tasks[t] = "connect_cleanup")
            ~> (tasks[t] = "idle" /\ client_lock # t /\ ~connected /\ session = "none")

\* The same as a state property: a connect() that failed never waits for a
\* lock it holds itself.
FailedConnectCanCleanUp ==
    \A t \in Tasks : tasks[t] = "connect_cleanup" => client_lock # t

\* No connect() ever raises: the re-raise after the cleanup is never
\* reached; and the lock is free whenever no call is under way.
ConnectNeverReraises ==
    /\ \A n \in 1..Len(finished) : finished[n].result = "returned"
    /\ (\A t \in Tasks : tasks[t] = "idle") => client_lock = 0

\* A connect() failed after the session was stored and waits for the lock
\* it holds, the client still marked connected, and a cleanup() called
\* later waits behind it.
C38_Stuck ==
    /\ tasks[1] = "connect_cleanup"
    /\ client_lock = 1
    /\ connected /\ session # "none"
    /\ tasks[2] = "cleanup_wait"

====
